---- MODULE Spec2Model ----
(***************************************************************************)
(* Model of the console framework of mysql-utilities:                      *)
(*   mysql_utilities/common/console.py           (_CommandHistory,         *)
(*                                                _Command, Console)       *)
(*   mysql_utilities/command/failover_console.py (FailoverConsole)         *)
(*                                                                         *)
(* A Python str is modelled as a sequence of one-character strings, so     *)
(* that slicing, find, split and strip are computed as Python computes     *)
(* them.                                                                   *)
(***************************************************************************)
EXTENDS Integers, Sequences, FiniteSets, TLC

VARIABLES
    cmd_line,    \* Console.cmd_line : _Command  [command, position, length]
    history,     \* Console.history : _CommandHistory [commands, position, max_size]
    added,       \* the commands passed to history.add so far, oldest first
    recalled,    \* what previous() returned since the last add or next, in order
    variables,   \* Console.variables : Variables, a dict name -> value
    tab_count,   \* Console.tab_count
    type_complete_mode, \* Console.type_complete_mode
    errors,      \* Console.errors
    base_commands, \* Console.base_commands: new_base_commands + BASE_COMMANDS
    options,     \* Console.options: [custom, quiet]
    out,         \* what the handler that ran last printed
    run,         \* run_console: its mode, input and position in its loops
    repl,        \* a call of _replace_variables: cmd_string, new_cmd, i, returned
    dash,        \* a FailoverConsole, its environment and where display_console is
    reg,         \* the consoles registering on one master and its marker table
    tty,         \* the terminal and a call that reads a key from it
    screen,      \* the row of the terminal the command line is on, and its cursor
    op,          \* name of the handler that ran last
    pre          \* state of the component when that handler was entered

lineVars == <<cmd_line>>
histVars == <<history, added, recalled>>
replVars == <<variables, repl>>
consVars == <<tab_count, type_complete_mode, errors, base_commands, options, out>>
runVars == <<run>>
dashVars == <<dash>>
regVars == <<reg>>
ttyVars == <<tty, screen>>
vars == <<cmd_line, history, added, recalled, variables, repl, tab_count,
          type_complete_mode, errors, base_commands, options, out, run, dash,
          reg, tty, screen, op, pre>>

(***************************************************************************)
(* Bounds of the model.                                                    *)
(***************************************************************************)
MaxLen == 4          \* longest line typed in the line-editor specification
MaxTyped == 3        \* longest line typed at the prompt of get_user_command
MaxKeys == 4         \* most keys pressed at that prompt
MaxRows == 5         \* most rows of a list of the failover console
PageRows == 2        \* rows of a list that a screen of the failover console holds
HistSize == 3        \* max_size option given to _CommandHistory
MaxAdds == 5         \* most commands added to the history
MaxBatch == 3        \* most commands in a batch string
MaxLines == 2        \* most lines of piped input
MaxPerLine == 2      \* most commands on one line of piped input
MaxCmdLen == 4       \* longest command text given to _replace_variables
ReplFuel == 8        \* iterations after which _replace_variables is taken to loop for ever

(***************************************************************************)
(* Python str primitives.                                                  *)
(***************************************************************************)
Min(a, b) == IF a < b THEN a ELSE b
Max(a, b) == IF a > b THEN a ELSE b

\* s[a:b] with Python's clamping and negative-index rules (0-based).
PySlice(s, a, b) ==
    LET n  == Len(s)
        na == IF a < 0 THEN Max(a + n, 0) ELSE Min(a, n)
        nb == IF b < 0 THEN Max(b + n, 0) ELSE Min(b, n)
    IN  IF na >= nb THEN <<>> ELSE SubSeq(s, na + 1, nb)

\* s[a:]
PyFrom(s, a) == PySlice(s, a, Len(s))

\* s.find(ch, start) for a one-character ch and start >= 0: a 0-based index or -1
Find(s, ch, start) ==
    LET hits == {k \in start..(Len(s) - 1) : s[k + 1] = ch}
    IN  IF hits = {} THEN -1 ELSE CHOOSE k \in hits : \A m \in hits : k <= m

\* s.strip(chars) for a set of characters
RECURSIVE LStrip(_, _)
LStrip(s, chars) ==
    IF s # <<>> /\ s[1] \in chars THEN LStrip(Tail(s), chars) ELSE s

RECURSIVE RStrip(_, _)
RStrip(s, chars) ==
    IF s # <<>> /\ s[Len(s)] \in chars
    THEN RStrip(SubSeq(s, 1, Len(s) - 1), chars) ELSE s

Strip(s, chars) == RStrip(LStrip(s, chars), chars)

\* the characters s.strip() removes
Whitespace == {" ", "\n", "\t", "\r"}

\* s.split(sep) for a one-character sep: the list of pieces, empty ones kept
RECURSIVE Split(_, _)
Split(s, sep) ==
    LET k == Find(s, sep, 0)
    IN  IF k = -1 THEN <<s>>
        ELSE <<PySlice(s, 0, k)>> \o Split(PyFrom(s, k + 1), sep)

\* s.lower()
UpperCase == <<"A", "B", "C", "D", "E", "F", "G", "H", "I", "J", "K", "L", "M",
               "N", "O", "P", "Q", "R", "S", "T", "U", "V", "W", "X", "Y", "Z">>
LowerCase == <<"a", "b", "c", "d", "e", "f", "g", "h", "i", "j", "k", "l", "m",
               "n", "o", "p", "q", "r", "s", "t", "u", "v", "w", "x", "y", "z">>

UpperSet == {UpperCase[k] : k \in 1..Len(UpperCase)}
LowerOf == [ch \in UpperSet |->
               LowerCase[CHOOSE k \in 1..Len(UpperCase) : UpperCase[k] = ch]]

LowerChar(ch) == IF ch \in UpperSet THEN LowerOf[ch] ELSE ch

Lower(s) == [k \in 1..Len(s) |-> LowerChar(s[k])]

\* s.startswith(prefix)
StartsWith(s, prefix) == PySlice(s, 0, Len(prefix)) = prefix

(***************************************************************************)
(* shlex.split(s): the POSIX-mode tokenizer with whitespace_split.  The    *)
(* lexer state z is [state, escapedstate, token, quoted, tokens]; state is *)
(* " " between tokens, "a" inside a word, the quote character inside a     *)
(* quoted part and the escape character after a backslash.  The result is  *)
(* the list of tokens, or ValueError for an unclosed quotation or a        *)
(* trailing escape character.                                              *)
(***************************************************************************)
ValueError == <<<<"ValueError">>>>
ShlexQuotes == {"\"", "'"}
ShlexEscape == {"\\"}

ShlexEmit(z) ==
    IF z.token # <<>> \/ z.quoted
    THEN [z EXCEPT !.tokens = Append(z.tokens, z.token),
                   !.token = <<>>, !.quoted = FALSE]
    ELSE z

ShlexChar(z, ch) ==
    IF z.state \in ShlexQuotes
    THEN IF ch = z.state
         THEN [z EXCEPT !.state = "a", !.quoted = TRUE]
         ELSE IF ch \in ShlexEscape /\ z.state = "\""
              THEN [z EXCEPT !.escapedstate = z.state, !.state = ch,
                             !.quoted = TRUE]
              ELSE [z EXCEPT !.token = Append(z.token, ch), !.quoted = TRUE]
    ELSE IF z.state \in ShlexEscape
    THEN [z EXCEPT !.token =
                       IF /\ z.escapedstate \in ShlexQuotes
                          /\ ch # z.state
                          /\ ch # z.escapedstate
                       THEN z.token \o <<z.state, ch>>
                       ELSE Append(z.token, ch),
                   !.state = z.escapedstate]
    ELSE IF ch \in Whitespace
    THEN [ShlexEmit(z) EXCEPT !.state = " "]
    ELSE IF ch \in ShlexQuotes
    THEN [z EXCEPT !.state = ch]
    ELSE IF ch \in ShlexEscape
    THEN [z EXCEPT !.escapedstate = "a", !.state = ch]
    ELSE [z EXCEPT !.token = Append(z.token, ch), !.state = "a"]

RECURSIVE ShlexRun(_, _, _)
ShlexRun(s, k, z) ==
    IF k > Len(s)
    THEN IF z.state \in ShlexQuotes \union ShlexEscape
         THEN ValueError
         ELSE ShlexEmit(z).tokens
    ELSE ShlexRun(s, k + 1, ShlexChar(z, s[k]))

ShlexSplit(s) ==
    ShlexRun(s, 1, [state |-> " ", escapedstate |-> " ", token |-> <<>>,
                    quoted |-> FALSE, tokens |-> <<>>])

(***************************************************************************)
(* class _Command: the line editor.  Each method is an operator from the   *)
(* object's fields before the call to its fields after the call.           *)
(***************************************************************************)
NewCommand == [command |-> <<>>, position |-> 0, length |-> 0]

home_keypress(c) == [c EXCEPT !.position = 0]

end_keypress(c) == [c EXCEPT !.position = c.length]

delete_keypress(c) ==
    IF c.position < c.length
    THEN IF c.length = 1
         THEN [c EXCEPT !.command = <<>>, !.length = 0]
         ELSE IF c.length > 0
              THEN LET old_command == c.command
                       new_command ==
                           PySlice(old_command, 0, c.position)
                           \o PyFrom(old_command, c.position + 1)
                   IN  [c EXCEPT !.command = new_command,
                                 !.length = Len(new_command)]
              ELSE c
    ELSE c

\* backspace_keypress without its early return at position 0
backspace_unguarded(c) ==
    LET new_command ==
            IF c.position < c.length
            THEN PySlice(c.command, 0, c.position - 1)
                 \o PyFrom(c.command, c.position)
            ELSE PySlice(c.command, 0, c.length - 1)
    IN  [command  |-> new_command,
         position |-> c.position - 1,
         length   |-> c.length - 1]

backspace_keypress(c) ==
    IF c.position <= 0
    THEN c
    ELSE LET new_command ==
                 IF c.position < c.length
                 THEN PySlice(c.command, 0, c.position - 1)
                      \o PyFrom(c.command, c.position)
                 ELSE PySlice(c.command, 0, c.length - 1)
         IN  [command  |-> new_command,
              position |-> c.position - 1,
              length   |-> c.length - 1]

left_arrow_keypress(c) ==
    IF c.position > 0 THEN [c EXCEPT !.position = c.position - 1] ELSE c

\* right_arrow_keypress without its test against length
right_arrow_unguarded(c) == [c EXCEPT !.position = c.position + 1]

right_arrow_keypress(c) ==
    IF c.position < c.length THEN [c EXCEPT !.position = c.position + 1] ELSE c

Command_add(c, key) ==
    IF c.position < c.length
    THEN [command  |-> PySlice(c.command, 0, c.position) \o key
                       \o PyFrom(c.command, c.position),
          position |-> c.position + Len(key),
          length   |-> c.length + Len(key)]
    ELSE [command  |-> c.command \o key,
          position |-> c.position + Len(key),
          length   |-> c.length + Len(key)]

(***************************************************************************)
(* class _CommandHistory.  add returns the fields after the call; next and *)
(* previous return [self |-> fields after the call, ret |-> value].        *)
(***************************************************************************)
NewCommandHistory(max_size) ==
    [commands |-> <<>>, position |-> 0, max_size |-> max_size]

\* commands[i] = command for a 0-based index i
ListSet(commands, i, command) == [commands EXCEPT ![i + 1] = command]

\* The list grows at every add.
History_add_always_appends(h, command) ==
    [h EXCEPT !.commands = Append(h.commands, command), !.position = 0]

History_add(h, command) ==
    IF Len(h.commands) < h.max_size
    THEN [h EXCEPT !.commands = Append(h.commands, command), !.position = 0]
    ELSE IF h.position = 0
         THEN [h EXCEPT !.commands = ListSet(h.commands, h.max_size - 1, command)]
         ELSE [h EXCEPT !.commands = ListSet(h.commands, h.position - 1, command)]

History_next(h) ==
    IF Len(h.commands) = 0
    THEN [self |-> h, ret |-> <<>>]
    ELSE LET p == IF h.position = Len(h.commands) - 1
                  THEN 0 ELSE h.position + 1
         IN  [self |-> [h EXCEPT !.position = p], ret |-> h.commands[p + 1]]

History_previous(h) ==
    IF Len(h.commands) = 0
    THEN [self |-> h, ret |-> <<>>]
    ELSE LET p == IF h.position = 0
                  THEN Len(h.commands) - 1 ELSE h.position - 1
         IN  [self |-> [h EXCEPT !.position = p], ret |-> h.commands[p + 1]]

(***************************************************************************)
(* class Variables (mysql_utilities/common/variables.py): a dict from      *)
(* variable name to value.  find_variable returns the stored value or None.*)
(***************************************************************************)
None == <<"None">>

NoVariables == [name \in {} |-> <<>>]

find_variable(vs, name) ==
    IF name \in DOMAIN vs THEN vs[name] ELSE None

add_variable(vs, name, value) ==
    [n \in (DOMAIN vs) \union {name} |->
        IF n = name THEN value ELSE vs[n]]

(***************************************************************************)
(* Console._replace_variables.  ReplaceIter is one pass through the body   *)
(* of `while i > 0`, on the locals [new_cmd, i].                           *)
(***************************************************************************)
ReplaceEnter(cmd_string) == [new_cmd |-> cmd_string, i |-> 1]

ReplaceIter(l, vs) ==
    LET i == Find(l.new_cmd, "$", l.i)
    IN  IF i > 0
        THEN LET found == Find(l.new_cmd, " ", i)
                 j == IF found = -1 THEN Len(l.new_cmd) ELSE found
             IN  IF j > i
                 THEN LET var_name == PySlice(l.new_cmd, i + 1, j)
                          var == find_variable(vs, var_name)
                      IN  IF var # None
                          THEN [new_cmd |-> PySlice(l.new_cmd, 0, i) \o var
                                            \o PyFrom(l.new_cmd, j),
                                i |-> i]
                          ELSE [l EXCEPT !.i = j]
                 ELSE [l EXCEPT !.i = i]
        ELSE [l EXCEPT !.i = i]

(***************************************************************************)
(* class Console.  The object is the record                                *)
(*   [cmd_line, tab_count, type_complete_mode, variables, history, errors, *)
(*    base_commands, options]                                              *)
(* and a method is an operator from the object before the call to          *)
(*   [self |-> the object after, ret |-> the value returned,               *)
(*    exc |-> the exception raised or NoExc, out |-> what was printed].    *)
(***************************************************************************)
COMMAND_COMPLETE == 0
OPTION_COMPLETE == 1
VARIABLE_COMPLETE == 2

BASE_COMMANDS == <<
    [name  |-> <<"h", "e", "l", "p">>,
     alias |-> <<"h", "e", "l", "p", " ", "c", "o", "m", "m", "a", "n", "d", "s">>,
     text  |-> "Show this list."],
    [name  |-> <<"e", "x", "i", "t">>,
     alias |-> <<"q", "u", "i", "t">>,
     text  |-> "Exit the console."],
    [name  |-> <<"s", "e", "t", " ", "<", "v", "a", "r", "i", "a", "b", "l", "e", ">", "=", "<", "v", "a", "l", "u", "e", ">">>,
     alias |-> <<>>,
     text  |-> "Store a variable for recall in commands."],
    [name  |-> <<"s", "h", "o", "w", " ", "o", "p", "t", "i", "o", "n", "s">>,
     alias |-> <<>>,
     text  |-> "Display list of options specified by the user on launch."],
    [name  |-> <<"s", "h", "o", "w", " ", "v", "a", "r", "i", "a", "b", "l", "e", "s">>,
     alias |-> <<>>,
     text  |-> "Display list of variables."],
    [name  |-> <<"<", "E", "N", "T", "E", "R", ">">>,
     alias |-> <<>>,
     text  |-> "Press ENTER to execute command."],
    [name  |-> <<"<", "E", "S", "C", "A", "P", "E", ">">>,
     alias |-> <<>>,
     text  |-> "Press ESCAPE to clear the command entry."],
    [name  |-> <<"<", "D", "O", "W", "N", ">">>,
     alias |-> <<>>,
     text  |-> "Press DOWN to retrieve the previous command."],
    [name  |-> <<"<", "U", "P", ">">>,
     alias |-> <<>>,
     text  |-> "Press UP to retrieve the next command in history."],
    [name  |-> <<"<", "T", "A", "B", ">">>,
     alias |-> <<>>,
     text  |-> "Press TAB for type completion of utility, option, or variable names."],
    [name  |-> <<"<", "T", "A", "B", ">", "<", "T", "A", "B", ">">>,
     alias |-> <<>>,
     text  |-> "Press TAB twice for list of matching type completion (context sensitive)."]>>

NoExc == "none"

\* options.get('prompt', '> ')
Prompt == <<">", " ">>

\* One print call: what was printed and with which data.
Printed(what, data) == [what |-> what, data |-> data]
BlankLine == Printed("blank line", <<>>)

Result(self, ret, exc, printed) ==
    [self |-> self, ret |-> ret, exc |-> exc, out |-> printed]

get_commands(self, cmd_prefix) ==
    LET stop == Len(cmd_prefix)
    IN  SelectSeq(self.base_commands,
                  LAMBDA cmd : \/ PySlice(cmd.name, 0, stop) = cmd_prefix
                               \/ PySlice(cmd.alias, 0, stop) = cmd_prefix)

show_errors(self) ==
    IF self.options.quiet THEN <<>>
    ELSE (IF self.errors = <<>>
          THEN <<BlankLine, Printed("No errors to display.", <<>>)>> ELSE <<>>)
         \o [k \in 1..(2 * Len(self.errors)) |->
                IF k % 2 = 1 THEN BlankLine
                ELSE Printed("error", self.errors[k \div 2])]

clear_errors(self) ==
    IF self.options.quiet THEN Result(self, None, NoExc, <<>>)
    ELSE Result([self EXCEPT !.errors = <<>>], None, NoExc, <<BlankLine>>)

show_last_error(self) ==
    IF self.options.quiet THEN <<>>
    ELSE IF self.errors = <<>>
         THEN <<BlankLine, Printed("No error to display.", <<>>)>>
         ELSE <<BlankLine, Printed("error", self.errors[Len(self.errors)])>>

show_command_help(self, commands) ==
    IF self.options.quiet THEN <<>>
    ELSE <<BlankLine, Printed("command list", commands), BlankLine>>

show_custom_command_help(self, arg) ==
    IF self.options.quiet THEN <<>>
    ELSE <<Printed("No commands like this exist.", arg)>>

show_help(self, parameter) ==
    IF self.options.quiet THEN <<>>
    ELSE IF parameter = <<>> \/ Lower(parameter) = <<"c", "o", "m", "m", "a", "n", "d", "s">>
         THEN <<BlankLine, Printed("command list", self.base_commands), BlankLine>>
         ELSE LET matches == get_commands(self, parameter)
              IN  IF Len(matches) > 0
                  THEN show_command_help(self, matches)
                  ELSE IF self.options.custom
                       THEN show_custom_command_help(self, parameter)
                       ELSE <<>>

\* Variables.show_variables(): the listing of the table
show_variables(vs) == <<Printed("variables", vs)>>

add_variable_cmd(self, set_command) ==
    IF Find(set_command, "=", 0) <= 0
    THEN Result(self, None, NoExc,
                <<Printed("SET command invalid. Syntax: SET <NAME> = <value>", <<>>)>>)
    ELSE LET parts == Split(set_command, "=")
         IN  IF Len(parts) # 2
             THEN Result(self, None, "ValueError", <<>>)
             ELSE LET name == Strip(Strip(parts[1], Whitespace), {"$"})
                      value == Strip(parts[2], Whitespace)
                  IN  Result([self EXCEPT !.variables =
                                  add_variable(self.variables, name, value)],
                             None, NoExc, <<>>)

\* _replace_variables as a function: [returned, new_cmd]; a call still in
\* its loop after ReplFuel iterations is taken never to return.
RECURSIVE ReplaceRun(_, _, _)
ReplaceRun(l, vs, fuel) ==
    IF ~(l.i > 0) THEN [returned |-> TRUE, new_cmd |-> l.new_cmd]
    ELSE IF fuel = 0 THEN [returned |-> FALSE, new_cmd |-> l.new_cmd]
    ELSE ReplaceRun(ReplaceIter(l, vs), vs, fuel - 1)

replace_variables(self, cmd_string) ==
    ReplaceRun(ReplaceEnter(cmd_string), self.variables, ReplFuel)

\* [cmd, parameters, out]; cmd is None when the tokenizer fails
get_util_parameters(cmd_string) ==
    LET tokens == ShlexSplit(cmd_string)
    IN  IF tokens = ValueError
        THEN [cmd |-> None, parameters |-> None,
              out |-> <<BlankLine,
                        Printed("WARNING: Unable to execute command", cmd_string)>>]
        ELSE IF Len(tokens) > 1
             THEN [cmd |-> tokens[1], parameters |-> Tail(tokens), out |-> <<>>]
             ELSE [cmd |-> Strip(cmd_string, {" "}), parameters |-> <<>>,
                   out |-> <<>>]

Command_clear(c) == [command |-> <<>>, position |-> 0, length |-> 0]

Cleared(self) == [self EXCEPT !.cmd_line = Command_clear(self.cmd_line),
                              !.tab_count = 0]

\* hook: what the overridable methods do in this call,
\*   [valid |-> is_valid_custom_command(cmd),
\*    execute |-> "ok" or the exception execute_custom_command raises]
do_command(self, command_text, hook) ==
    LET replaced == replace_variables(self, Strip(command_text, {" "}))
        command == replaced.new_cmd
        quiet == self.options.quiet
        low(n) == Lower(PySlice(command, 0, n))
    IN  IF ~replaced.returned
        THEN Result(self, None, "hang", <<>>)
        ELSE IF StartsWith(Lower(command), <<"s", "e", "t", " ">>)
        THEN LET r == add_variable_cmd(self, PyFrom(command, 4))
             IN  IF r.exc # NoExc
                 THEN r
                 ELSE Result(Cleared(r.self), FALSE, NoExc,
                             r.out \o (IF quiet THEN <<>> ELSE <<BlankLine>>))
        ELSE IF low(11) = <<"s", "h", "o", "w", " ", "e", "r", "r", "o", "r", "s">>
        THEN Result(Cleared(self), FALSE, NoExc, show_errors(self))
        ELSE IF low(12) = <<"c", "l", "e", "a", "r", " ", "e", "r", "r", "o", "r", "s">>
        THEN LET r == clear_errors(self)
             IN  Result(Cleared(r.self), FALSE, NoExc, r.out)
        ELSE IF low(15) = <<"s", "h", "o", "w", " ", "l", "a", "s", "t", " ", "e", "r", "r", "o", "r">>
        THEN Result(Cleared(self), FALSE, NoExc, show_last_error(self))
        ELSE IF low(14) = <<"s", "h", "o", "w", " ", "v", "a", "r", "i", "a", "b", "l", "e", "s">>
        THEN Result(Cleared(self), FALSE, NoExc, show_variables(self.variables))
        ELSE IF self.options.custom /\ low(12) = <<"s", "h", "o", "w", " ", "o", "p", "t", "i", "o", "n", "s">>
        THEN Result(Cleared(self), FALSE, NoExc, <<>>)
        ELSE LET p == get_util_parameters(command)
                 cmd == p.cmd
             IN  IF cmd = None
                 THEN Result(self, FALSE, NoExc, p.out)
                 ELSE IF Lower(cmd) = <<"h", "e", "l", "p">>
                 THEN Result(Cleared(self), FALSE, NoExc,
                             show_help(self, IF p.parameters # <<>>
                                             THEN p.parameters[1] ELSE <<>>))
                 ELSE IF cmd = <<>>
                 THEN Result(Cleared(self), FALSE, NoExc, <<BlankLine>>)
                 ELSE IF Lower(cmd) \in {<<"e", "x", "i", "t">>, <<"q", "u", "i", "t">>}
                 THEN Result(self, TRUE, NoExc, <<BlankLine>>)
                 ELSE IF self.options.custom
                 THEN IF ~hook.valid
                      THEN Result(Cleared(self), FALSE, NoExc,
                                  <<Printed("Unknown command", <<cmd, p.parameters>>)>>)
                      ELSE IF hook.execute = "ok"
                      THEN Result(Cleared(self), FALSE, NoExc,
                                  <<Printed("execute_custom_command",
                                            <<cmd, p.parameters>>), BlankLine>>)
                      ELSE IF hook.execute = "UtilError"
                      THEN Result(Cleared(self), FALSE, NoExc,
                                  <<Printed("execute_custom_command",
                                            <<cmd, p.parameters>>),
                                    Printed("err.errmsg", <<>>)>>)
                      ELSE Result(self, None, hook.execute,
                                  <<Printed("execute_custom_command",
                                            <<cmd, p.parameters>>)>>)
                 ELSE Result(Cleared(self), FALSE, NoExc, <<>>)

(***************************************************************************)
(* Keys.  A raw key is the string getch() returns; the characters that a   *)
(* TLA+ string cannot hold are named: "ESC" is \x1b, "DEL" is \x7f, "BS"   *)
(* is \x08 and "XE0" is \xe0.  COMMAND_KEY lists the items of the dict     *)
(* literal in source order; as in Python, a later item with the same key   *)
(* replaces an earlier one.                                                *)
(***************************************************************************)
COMMAND_KEY ==
    <<<<<<"DEL">>, "DELETE_POSIX">>,
      <<<<"ESC", "[", "3", "~">>, "DELETE_MAC">>,
      <<<<"\n">>, "ENTER_POSIX">>,
      <<<<"\r">>, "ENTER_WIN">>,
      <<<<"ESC">>, "ESCAPE">>,
      <<<<"ESC", "[", "A">>, "ARROW_UP">>,
      <<<<"ESC", "[", "B">>, "ARROW_DN">>,
      <<<<"ESC", "[", "C">>, "ARROW_RT">>,
      <<<<"ESC", "[", "D">>, "ARROW_LT">>,
      <<<<"\t">>, "TAB">>,
      <<<<"DEL">>, "BACKSPACE_POSIX">>,
      <<<<"XE0">>, "SPECIAL_WIN">>,
      <<<<"BS">>, "BACKSPACE_WIN">>,
      <<<<"ESC", "O", "H">>, "HOME">>,
      <<<<"ESC", "O", "F">>, "END">>>>

\* key in _COMMAND_KEY
IsCommandKey(key) == \E k \in 1..Len(COMMAND_KEY) : COMMAND_KEY[k][1] = key

\* _COMMAND_KEY[key]
CommandKeyOf(key) ==
    LET last == CHOOSE k \in 1..Len(COMMAND_KEY) :
                    /\ COMMAND_KEY[k][1] = key
                    /\ \A m \in (k + 1)..Len(COMMAND_KEY) : COMMAND_KEY[m][1] # key
    IN  COMMAND_KEY[last][2]

(***************************************************************************)
(* _Command methods used by the key handlers only.                         *)
(***************************************************************************)
erase_command(c) == [c EXCEPT !.command = <<>>]

replace_command(c, new_cmd) ==
    IF new_cmd # <<>>
    THEN [command |-> new_cmd, position |-> Len(new_cmd), length |-> Len(new_cmd)]
    ELSE c

\* range(position - 1, len(parts[0]) - 1, -1), highest index first
\* [ret |-> the nearest option, exc |-> NoExc or "IndexError"]
get_nearest_option(c) ==
    LET parts == Split(c.command, " ")
        lowest == Len(parts[1])
        highest == c.position - 1
        spaces == {i \in lowest..highest :
                       i < Len(c.command) /\ c.command[i + 1] = " "}
        outside == {i \in lowest..highest : i >= Len(c.command)}
    IN  IF c.position < c.length
        THEN IF outside # {}
             THEN [ret |-> None, exc |-> "IndexError"]
             ELSE IF spaces # {}
                  THEN LET i == CHOOSE i \in spaces : \A m \in spaces : m <= i
                       IN  [ret |-> Strip(PySlice(c.command, i + 1, c.position),
                                          {" "}),
                            exc |-> NoExc]
                  ELSE [ret |-> <<"E", "R", "R", "O", "R">>, exc |-> NoExc]
        ELSE [ret |-> parts[Len(parts)], exc |-> NoExc]

display_command(self) == Printed("display_command", Prompt \o self.cmd_line.command)

(***************************************************************************)
(* Tab completion.                                                         *)
(***************************************************************************)
\* [self, segment, exc]
set_complete_mode(self) ==
    LET buf == self.cmd_line.command
        parts == Split(buf, " ")
    IN  IF Len(buf) > 0 /\ Len(parts) = 1
        THEN [self |-> [self EXCEPT !.type_complete_mode = COMMAND_COMPLETE],
              segment |-> <<>>, exc |-> NoExc]
        ELSE LET near == get_nearest_option(self.cmd_line)
             IN  IF near.exc # NoExc
                 THEN [self |-> self, segment |-> None, exc |-> near.exc]
                 ELSE [self |-> [self EXCEPT !.type_complete_mode =
                                    IF Find(near.ret, "$", 0) > 0
                                    THEN VARIABLE_COMPLETE ELSE OPTION_COMPLETE],
                       segment |-> near.ret, exc |-> NoExc]

\* The completion is always taken from the name, never from the alias.
do_base_command_tab_name_only(self, command_text, matches) ==
    IF self.tab_count = 2
    THEN Result([self EXCEPT !.tab_count = 0], None, NoExc,
                <<Printed("command list", matches), display_command(self)>>)
    ELSE IF Len(matches) = 1
         THEN LET new_cmd == matches[1].name \o <<" ">>
              IN  Result([self EXCEPT
                             !.tab_count = 0,
                             !.cmd_line = Command_add(self.cmd_line,
                                              PyFrom(new_cmd, Len(command_text)))],
                         None, NoExc, <<>>)
         ELSE Result(self, None, NoExc, <<>>)

do_base_command_tab(self, command_text, matches) ==
    IF self.tab_count = 2
    THEN Result([self EXCEPT !.tab_count = 0], None, NoExc,
                <<Printed("command list", matches), display_command(self)>>)
    ELSE IF Len(matches) = 1
         THEN LET new_cmd ==
                      IF PySlice(matches[1].name, 0, Len(command_text)) = command_text
                      THEN matches[1].name \o <<" ">>
                      ELSE matches[1].alias \o <<" ">>
              IN  Result([self EXCEPT
                             !.tab_count = 0,
                             !.cmd_line = Command_add(self.cmd_line,
                                              PyFrom(new_cmd, Len(command_text)))],
                         None, NoExc, <<>>)
         ELSE Result(self, None, NoExc, <<>>)

\* the overridable do_custom_tab and do_custom_option_tab
do_custom_tab(self, prefix) ==
    Result(self, None, NoExc, <<Printed("do_custom_tab", prefix)>>)

do_custom_option_tab(self, prefix) ==
    Result(self, None, NoExc,
           IF self.options.quiet THEN <<>>
           ELSE <<Printed("No custom commands found.", <<>>)>>)

do_command_tab(self, command_text) ==
    LET matches == get_commands(self, command_text)
    IN  IF Len(matches) > 0
        THEN do_base_command_tab(self, command_text, matches)
        ELSE IF self.options.custom
             THEN do_custom_tab(self, command_text)
             ELSE Result(self, None, NoExc, <<>>)

do_option_tab(self, prefix) ==
    LET full_command == self.cmd_line.command
        matches == get_commands(self, Strip(full_command, {" "}))
    IN  IF Len(matches) > 0
        THEN do_base_command_tab(self, full_command, matches)
        ELSE IF self.options.custom
             THEN IF Lower(PySlice(full_command, 0, 4)) = <<"h", "e", "l", "p">>
                  THEN do_custom_tab(self, prefix)
                  ELSE do_custom_option_tab(self, prefix)
             ELSE Result(self, None, NoExc, <<>>)

\* Variables.get_matches(prefix): the names that start with prefix
get_matches(vs, prefix) ==
    {name \in DOMAIN vs : PySlice(name, 0, Len(prefix)) = prefix}

do_variable_tab(self, segment) ==
    LET stop == Len(segment)
        \* the indexes the loop visits before a space makes it break
        visited == {i \in 1..(stop - 1) :
                       \A m \in i..(stop - 1) : segment[m + 1] # " "}
        dollars == {i \in visited : segment[i + 1] = "$"}
        start_var == IF dollars = {} THEN 0
                     ELSE CHOOSE i \in dollars : \A m \in dollars : i <= m
        variable == IF dollars = {} THEN <<>> ELSE PyFrom(segment, start_var + 1)
        matches == IF start_var = stop
                   THEN DOMAIN self.variables
                   ELSE get_matches(self.variables, variable)
    IN  IF self.tab_count = 2
        THEN Result([self EXCEPT !.tab_count = 0], None, NoExc,
                    <<Printed("variables", matches), display_command(self)>>)
        ELSE IF Cardinality(matches) = 1
             THEN LET new_var == (CHOOSE name \in matches : TRUE) \o <<" ">>
                  IN  Result([self EXCEPT
                                 !.cmd_line = Command_add(self.cmd_line,
                                                  PyFrom(new_var, Len(variable))),
                                 !.tab_count = 0],
                             None, NoExc, <<>>)
             ELSE Result(self, None, NoExc, <<>>)

(***************************************************************************)
(* Console._process_command_keys and one pass through the loop of          *)
(* Console.get_user_command (os.name = 'posix').                           *)
(***************************************************************************)
OnLine(self, c) == Result([self EXCEPT !.cmd_line = c], None, NoExc, <<>>)

\* The last branch of _process_command_keys, taken for TAB and for every
\* other key: `counted` is self after self.tab_count += 1.
tab_dispatch(counted, segment) ==
    IF counted.type_complete_mode = COMMAND_COMPLETE
    THEN do_command_tab(counted, counted.cmd_line.command)
    ELSE IF counted.type_complete_mode = OPTION_COMPLETE
    THEN do_option_tab(counted, segment)
    ELSE do_variable_tab(counted, segment)

\* m is what _set_complete_mode() did: [self, segment, exc]
tab_keypress(self, m) ==
    IF m.exc # NoExc
    THEN Result(self, None, m.exc, <<>>)
    ELSE tab_dispatch([m.self EXCEPT !.tab_count = m.self.tab_count + 1], m.segment)

process_command_keys(self, cmd_key) ==
    IF cmd_key = "ESCAPE"
    THEN OnLine(self, erase_command(self.cmd_line))
    ELSE IF cmd_key \in {"DELETE_POSIX", "DELETE_WIN", "DELETE_MAC"}
    THEN Result([self EXCEPT !.cmd_line = delete_keypress(self.cmd_line),
                             !.tab_count = 0], None, NoExc, <<>>)
    ELSE IF cmd_key = "ARROW_UP"
    THEN LET h == History_previous(self.history)
         IN  Result([self EXCEPT !.history = h.self,
                                 !.cmd_line = replace_command(self.cmd_line, h.ret)],
                    None, NoExc, <<>>)
    ELSE IF cmd_key = "ARROW_DN"
    THEN LET h == History_next(self.history)
         IN  Result([self EXCEPT !.history = h.self,
                                 !.cmd_line = replace_command(self.cmd_line, h.ret)],
                    None, NoExc, <<>>)
    ELSE IF cmd_key = "ARROW_LT"
    THEN OnLine(self, left_arrow_keypress(self.cmd_line))
    ELSE IF cmd_key = "ARROW_RT"
    THEN OnLine(self, right_arrow_keypress(self.cmd_line))
    ELSE IF cmd_key \in {"BACKSPACE_POSIX", "BACKSPACE_WIN"}
    THEN OnLine(self, backspace_keypress(self.cmd_line))
    ELSE IF cmd_key = "HOME"
    THEN OnLine(self, home_keypress(self.cmd_line))
    ELSE IF cmd_key = "END"
    THEN OnLine(self, end_keypress(self.cmd_line))
    ELSE tab_keypress(self, set_complete_mode(self))

\* ret is the cmd_string after this key
user_key(self, key) ==
    IF IsCommandKey(key)
    THEN LET r == process_command_keys(self, CommandKeyOf(key))
         IN  [r EXCEPT !.ret = r.self.cmd_line.command]
    ELSE LET c == Command_add(self.cmd_line, key)
         IN  Result([self EXCEPT !.cmd_line = c], c.command, NoExc, <<>>)

\* what the key is called in op
KeyName(key) == IF IsCommandKey(key) THEN CommandKeyOf(key) ELSE "add"

(***************************************************************************)
(* Specification SpecLine: the seven edit and move operations of _Command  *)
(* applied in any order to an initially empty line.                        *)
(***************************************************************************)
LineKeys == {<<"a">>, <<"b">>, <<"a", "b">>}

IdleLine == cmd_line = NewCommand

IdleHist ==
    /\ history = NewCommandHistory(HistSize)
    /\ added = <<>>
    /\ recalled = <<>>

IdleRepl ==
    /\ variables = NoVariables
    /\ repl = [cmd_string |-> <<>>, new_cmd |-> <<>>, i |-> 0, returned |-> TRUE]

IdleCons ==
    /\ tab_count = 0
    /\ type_complete_mode = COMMAND_COMPLETE
    /\ errors = <<>>
    /\ base_commands = BASE_COMMANDS
    /\ options = [custom |-> FALSE, quiet |-> FALSE]
    /\ out = <<>>

IdleRun == run = [mode |-> "none"]

IdleDash == dash = [pc |-> "none"]

IdleReg == reg = [pc |-> "none"]

IdleScreen == screen = [pc |-> "none"]

IdleTty == tty = [pc |-> "none"] /\ IdleScreen

InitLine ==
    /\ IdleLine
    /\ IdleHist
    /\ IdleRepl
    /\ IdleCons
    /\ IdleRun
    /\ IdleDash
    /\ IdleReg
    /\ IdleTty
    /\ op = "init"
    /\ pre = NewCommand

Ran(name, new) ==
    /\ op' = name
    /\ pre' = cmd_line
    /\ cmd_line' = new
    /\ UNCHANGED <<dashVars, regVars, ttyVars, histVars, replVars, consVars, runVars>>

LineAdd ==
    \E key \in LineKeys :
        /\ cmd_line.length + Len(key) <= MaxLen
        /\ Ran("add", Command_add(cmd_line, key))

LineBackspace == Ran("backspace_keypress", backspace_keypress(cmd_line))
LineDelete    == Ran("delete_keypress", delete_keypress(cmd_line))
LineLeft      == Ran("left_arrow_keypress", left_arrow_keypress(cmd_line))
LineRight     == Ran("right_arrow_keypress", right_arrow_keypress(cmd_line))
LineHome      == Ran("home_keypress", home_keypress(cmd_line))
LineEnd       == Ran("end_keypress", end_keypress(cmd_line))

NextLine ==
    \/ LineAdd
    \/ LineBackspace
    \/ LineDelete
    \/ LineLeft
    \/ LineRight
    \/ LineHome
    \/ LineEnd

SpecLine == InitLine /\ [][NextLine]_vars

(***************************************************************************)
(* C1: after every edit or move operation on an initially empty line,      *)
(* 0 <= position <= length.                                                *)
(***************************************************************************)
C1_CursorInRange ==
    /\ 0 <= cmd_line.position
    /\ cmd_line.position <= cmd_line.length

\* An in-line delete has run with text on both sides of the cursor.
C1_Witness ==
    /\ op = "delete_keypress"
    /\ pre.position > 0
    /\ pre.position < pre.length
    /\ cmd_line.length = pre.length - 1

(***************************************************************************)
(* C2: backspace_keypress with position = 0 and delete_keypress with       *)
(* position = length leave command, position and length unchanged.         *)
(***************************************************************************)
C2_EdgeKeysAreNoOps ==
    /\ (op = "backspace_keypress" /\ pre.position = 0) => cmd_line = pre
    /\ (op = "delete_keypress" /\ pre.position = pre.length) => cmd_line = pre

\* Backspace at the start of a non-empty line.
C2_Witness ==
    /\ op = "backspace_keypress"
    /\ pre.position = 0
    /\ pre.length > 1

(***************************************************************************)
(* Specification SpecHist: add, next and previous called in any order on   *)
(* an initially empty _CommandHistory of capacity HistSize.  The k-th      *)
(* command added is the one-character-per-element string "c" k, so the     *)
(* commands are pairwise distinct.                                         *)
(***************************************************************************)
Cmd(k) == <<"c", k>>

InitHist ==
    /\ IdleLine
    /\ IdleHist
    /\ IdleRepl
    /\ IdleCons
    /\ IdleRun
    /\ IdleDash
    /\ IdleReg
    /\ IdleTty
    /\ op = "init"
    /\ pre = NewCommandHistory(HistSize)

HistAdd ==
    /\ Len(added) < MaxAdds
    /\ LET command == Cmd(Len(added) + 1)
       IN  /\ history' = History_add(history, command)
           /\ added' = Append(added, command)
    /\ recalled' = <<>>
    /\ op' = "add"
    /\ pre' = history
    /\ UNCHANGED <<dashVars, regVars, ttyVars, lineVars, replVars, consVars, runVars>>

HistNext ==
    /\ history' = History_next(history).self
    /\ recalled' = <<>>
    /\ op' = "next"
    /\ pre' = history
    /\ UNCHANGED <<dashVars, regVars, ttyVars, lineVars, replVars, consVars, runVars, added>>

HistPrevious ==
    /\ history' = History_previous(history).self
    /\ recalled' = IF Len(recalled) < HistSize + 1
                   THEN Append(recalled, History_previous(history).ret)
                   ELSE recalled
    /\ op' = "previous"
    /\ pre' = history
    /\ UNCHANGED <<dashVars, regVars, ttyVars, lineVars, replVars, consVars, runVars, added>>

NextHist ==
    \/ HistAdd
    \/ HistNext
    \/ HistPrevious

SpecHist == InitHist /\ [][NextHist]_vars

\* The elements of a sequence.
Range(s) == {s[i] : i \in 1..Len(s)}

(***************************************************************************)
(* C3: after N+1 distinct commands c1..c(N+1) are added to a history of    *)
(* capacity N with no recall in between, N successive previous() calls     *)
(* return c(N+1), cN, ..., c2, and c1 is no longer in the ring.            *)
(***************************************************************************)
C3_LastNNewestFirst ==
    (/\ Len(added) = history.max_size + 1
     /\ history.position = 0 \/ recalled # <<>>
     /\ Len(recalled) <= history.max_size)
    => /\ \A i \in 1..Len(recalled) :
              recalled[i] = added[Len(added) + 1 - i]
       /\ added[1] \notin Range(history.commands)

(***************************************************************************)
(* Specification SpecRepl: one call of _replace_variables on any command   *)
(* text of at most MaxCmdLen characters and any variable table over        *)
(* ReplNames and ReplValues, one action per iteration of its loop.         *)
(***************************************************************************)
ReplAlphabet == {"$", " ", "a", "b"}
ReplNames == {<<"a">>, <<"b">>}
ReplValues == {<<"v">>, <<"$", "b">>}

\* All strings of at most n characters over the alphabet.
Strings(alphabet, n) == UNION {[1..k -> alphabet] : k \in 0..n}

\* All dicts from some of the names to values.
Tables(names, values) == UNION {[d -> values] : d \in SUBSET names}

InitRepl ==
    /\ IdleLine
    /\ IdleHist
    /\ IdleCons
    /\ IdleRun
    /\ variables \in Tables(ReplNames, ReplValues)
    /\ \E cmd_string \in Strings(ReplAlphabet, MaxCmdLen) :
           repl = [cmd_string |-> cmd_string,
                   new_cmd |-> ReplaceEnter(cmd_string).new_cmd,
                   i |-> ReplaceEnter(cmd_string).i,
                   returned |-> FALSE]
    /\ IdleDash
    /\ IdleReg
    /\ IdleTty
    /\ op = "init"
    /\ pre = <<>>

\* while i > 0: one iteration
ReplLoop ==
    /\ ~repl.returned
    /\ repl.i > 0
    /\ LET l == ReplaceIter([new_cmd |-> repl.new_cmd, i |-> repl.i], variables)
       IN  repl' = [repl EXCEPT !.new_cmd = l.new_cmd, !.i = l.i]
    /\ UNCHANGED <<dashVars, regVars, ttyVars, lineVars, histVars, consVars, runVars, variables, op, pre>>

\* return new_cmd
ReplReturn ==
    /\ ~repl.returned
    /\ ~(repl.i > 0)
    /\ repl' = [repl EXCEPT !.returned = TRUE]
    /\ UNCHANGED <<dashVars, regVars, ttyVars, lineVars, histVars, consVars, runVars, variables, op, pre>>

NextRepl ==
    \/ ReplLoop
    \/ ReplReturn

SpecRepl == InitRepl /\ [][NextRepl]_vars

(***************************************************************************)
(* The `$name` tokens of a command text, read left to right from its first *)
(* character: a token starts at a `$` and its name runs to the next space  *)
(* or to the end of the text.  Every other character is a segment of its   *)
(* own.                                                                    *)
(***************************************************************************)
RECURSIVE Segments(_, _)
Segments(text, k) ==
    IF k >= Len(text)
    THEN <<>>
    ELSE IF text[k + 1] = "$"
         THEN LET found == Find(text, " ", k)
                  j == IF found = -1 THEN Len(text) ELSE found
              IN  <<[token |-> TRUE, text |-> PySlice(text, k, j),
                     name |-> PySlice(text, k + 1, j)]>>
                  \o Segments(text, j)
         ELSE <<[token |-> FALSE, text |-> <<text[k + 1]>>, name |-> <<>>]>>
              \o Segments(text, k + 1)

Substituted(seg, table) == seg.token /\ seg.name \in DOMAIN table

RECURSIVE Expected(_, _, _)
Expected(segs, k, table) ==
    IF k > Len(segs)
    THEN <<>>
    ELSE (IF Substituted(segs[k], table)
          THEN table[segs[k].name] ELSE segs[k].text)
         \o Expected(segs, k + 1, table)

\* text is the segments from the k-th on, with anything at all in the place
\* of each substituted token.
RECURSIVE FrameKept(_, _, _, _)
FrameKept(segs, k, table, text) ==
    IF k > Len(segs)
    THEN text = <<>>
    ELSE IF Substituted(segs[k], table)
         THEN \E n \in 0..Len(text) :
                  FrameKept(segs, k + 1, table, PyFrom(text, n))
         ELSE /\ PySlice(text, 0, Len(segs[k].text)) = segs[k].text
              /\ FrameKept(segs, k + 1, table, PyFrom(text, Len(segs[k].text)))

(***************************************************************************)
(* C6: _replace_variables returns the command text with every `$name`      *)
(* token whose name is in the variable table replaced by the stored value, *)
(* wherever the token is, the first character of the command included.     *)
(***************************************************************************)
C6_EveryKnownTokenReplaced ==
    repl.returned =>
        repl.new_cmd = Expected(Segments(repl.cmd_string, 0), 1, variables)

(***************************************************************************)
(* C7: a `$name` token whose name is not in the variable table is left     *)
(* verbatim, and every character outside the substituted tokens is         *)
(* unchanged and in the same order.                                        *)
(***************************************************************************)
C7_RestLeftVerbatim ==
    repl.returned =>
        FrameKept(Segments(repl.cmd_string, 0), 1, variables, repl.new_cmd)

(***************************************************************************)
(* Console.run_console, batch-string mode (self.commands is not None) and  *)
(* piped mode (standard input is not a terminal).  One action is one pass  *)
(* through the body of the loop over the commands.                         *)
(***************************************************************************)
Self ==
    [cmd_line |-> cmd_line, tab_count |-> tab_count,
     type_complete_mode |-> type_complete_mode, variables |-> variables,
     history |-> history, errors |-> errors, base_commands |-> base_commands,
     options |-> options]

Store(self) ==
    /\ cmd_line' = self.cmd_line
    /\ tab_count' = self.tab_count
    /\ type_complete_mode' = self.type_complete_mode
    /\ variables' = self.variables
    /\ history' = self.history
    /\ errors' = self.errors
    /\ base_commands' = self.base_commands
    /\ options' = self.options

Hooks == [valid : BOOLEAN, execute : {"ok", "UtilError"}]

\* sep.join(pieces)
RECURSIVE Join(_, _)
Join(pieces, sep) ==
    IF Len(pieces) = 0 THEN <<>>
    ELSE IF Len(pieces) = 1 THEN pieces[1]
    ELSE pieces[1] \o sep \o Join(Tail(pieces), sep)

\* All lists of 1..n elements of a set.
Lists(S, n) == UNION {[1..k -> S] : k \in 1..n}

BatchVocabulary ==
    {<<"s", "e", "t", " ", "x", "=", "5">>, <<"s", "h", "o", "w", " ", "v", "a", "r", "i", "a", "b", "l", "e", "s">>, <<"e", "x", "i", "t">>, <<"Q", "U", "I", "T">>, <<"u", "s", "e", " ", "$", "x">>}

PipedVocabulary == {<<"s", "e", "t", " ", "x", "=", "5">>, <<"s", "h", "o", "w", " ", "v", "a", "r", "i", "a", "b", "l", "e", "s">>, <<"e", "x", "i", "t">>}

\* The text run_console passes to _do_command for one piece of the input.
Prepared(piece) == Strip(Strip(Strip(piece, {"\n"}), {" "}), {"\""})

InitBatch ==
    /\ IdleLine
    /\ IdleHist
    /\ IdleRepl
    /\ tab_count = 0
    /\ type_complete_mode = COMMAND_COMPLETE
    /\ errors = <<>>
    /\ base_commands = BASE_COMMANDS
    /\ options \in [custom : BOOLEAN, quiet : BOOLEAN]
    /\ out = <<>>
    /\ \E list \in Lists(BatchVocabulary, MaxBatch) :
           run = [mode |-> "batch", commands |-> Join(list, <<";">>),
                  pc |-> "loop", idx |-> 1, dispatched |-> <<>>]
    /\ IdleDash
    /\ IdleReg
    /\ IdleTty
    /\ op = "init"
    /\ pre = <<>>

\* The loop goes on to the next command whatever _do_command returned.
BatchNoBreak(r, idx, n) ==
    IF r.exc # NoExc THEN r.exc
    ELSE IF idx = n THEN "done" ELSE "loop"

\* Where the loop over the n commands is after the idx-th has been
\* dispatched with result r: `break` if _do_command returned True.
BatchAfter(r, idx, n) ==
    IF r.exc # NoExc THEN r.exc
    ELSE IF r.ret = TRUE \/ idx = n THEN "done" ELSE "loop"

\* for command in command_list: ... if self._do_command(...): break
BatchDispatch ==
    /\ run.mode = "batch"
    /\ run.pc = "loop"
    /\ \E hook \in Hooks :
        LET command_list == Split(run.commands, ";")
            command == Prepared(command_list[run.idx])
            r == do_command(Self, command, hook)
            entry == [command |-> command, variables |-> variables,
                      ret |-> r.ret, out |-> r.out]
        IN  /\ Store(r.self)
            /\ out' = r.out
            /\ run' = [run EXCEPT
                   !.dispatched = Append(run.dispatched, entry),
                   !.idx = run.idx + 1,
                   !.pc = BatchAfter(r, run.idx, Len(command_list))]
    /\ op' = "_do_command"
    /\ UNCHANGED <<dashVars, regVars, ttyVars, added, recalled, repl, pre>>

NextBatch == BatchDispatch

SpecBatch == InitBatch /\ [][NextBatch]_vars

InitPiped ==
    /\ IdleLine
    /\ IdleHist
    /\ IdleRepl
    /\ tab_count = 0
    /\ type_complete_mode = COMMAND_COMPLETE
    /\ errors = <<>>
    /\ base_commands = BASE_COMMANDS
    /\ options \in [custom : BOOLEAN, quiet : BOOLEAN]
    /\ out = <<>>
    /\ \E lists \in Lists(Lists(PipedVocabulary, MaxPerLine), MaxLines) :
           run = [mode |-> "piped",
                  lines |-> [k \in 1..Len(lists) |->
                                Join(lists[k], <<";">>) \o <<"\n">>],
                  pc |-> "loop", line |-> 1, idx |-> 1, dispatched |-> <<>>]
    /\ IdleDash
    /\ IdleReg
    /\ IdleTty
    /\ op = "init"
    /\ pre = <<>>

\* for command in sys.stdin.readlines():
\*     for cmd in command.split(';'): ... if self._do_command(...): break
PipedDispatch ==
    /\ run.mode = "piped"
    /\ run.pc = "loop"
    /\ \E hook \in Hooks :
        LET command_list == Split(run.lines[run.line], ";")
            cmd == Prepared(command_list[run.idx])
            r == do_command(Self, cmd, hook)
            entry == [command |-> cmd, variables |-> variables,
                      ret |-> r.ret, out |-> r.out]
            line_over == r.ret = TRUE \/ run.idx = Len(command_list)
        IN  /\ Store(r.self)
            /\ out' = r.out
            /\ run' = [run EXCEPT
                   !.dispatched = Append(run.dispatched, entry),
                   !.idx = IF line_over THEN 1 ELSE run.idx + 1,
                   !.line = IF line_over THEN run.line + 1 ELSE run.line,
                   !.pc = IF r.exc # NoExc THEN r.exc
                          ELSE IF line_over /\ run.line = Len(run.lines)
                               THEN "done" ELSE "loop"]
    /\ op' = "_do_command"
    /\ UNCHANGED <<dashVars, regVars, ttyVars, added, recalled, repl, pre>>

NextPiped == PipedDispatch

SpecPiped == InitPiped /\ [][NextPiped]_vars

\* An exit or quit command: its first word, in lower case, is exit or quit.
IsExit(command) ==
    LET words == Split(Strip(command, {" "}), " ")
    IN  Lower(words[1]) \in {<<"e", "x", "i", "t">>, <<"q", "u", "i", "t">>}

\* No command was dispatched after an exit or quit command.
NothingAfterExit ==
    \A k \in 1..(Len(run.dispatched) - 1) : ~IsExit(run.dispatched[k].command)

(***************************************************************************)
(* C4: in batch-string mode the commands are dispatched one at a time in   *)
(* left-to-right order and none is dispatched after an exit or quit; for   *)
(* 'set x=5;show variables;exit', x holds 5 when 'show variables' runs and *)
(* the loop ends at 'exit'.                                                *)
(***************************************************************************)
BatchExample == <<"s", "e", "t", " ", "x", "=", "5", ";", "s", "h", "o", "w", " ", "v", "a", "r", "i", "a", "b", "l", "e", "s", ";", "e", "x", "i", "t">>

C4_BatchInOrderUntilExit ==
    LET pieces == Split(run.commands, ";")
        d == run.dispatched
    IN  /\ Len(d) <= Len(pieces)
        /\ \A k \in 1..Len(d) : d[k].command = Prepared(pieces[k])
        /\ NothingAfterExit
        /\ (d # <<>> /\ IsExit(d[Len(d)].command)) => run.pc = "done"
        /\ (run.commands = BatchExample /\ Len(d) >= 2) =>
               /\ d[2].variables = (<<"x">> :> <<"5">>)
               /\ d[2].out = <<Printed("variables", <<"x">> :> <<"5">>)>>
        /\ (run.commands = BatchExample /\ run.pc = "done") => Len(d) = 3

\* The example has run to its end, and 'exit' was its third dispatch.
C4_Witness ==
    /\ run.commands = BatchExample
    /\ run.pc = "done"
    /\ Len(run.dispatched) = 3
    /\ run.dispatched[3].ret = TRUE

(***************************************************************************)
(* C5: in piped mode no command is dispatched after an exit or quit        *)
(* command, on the same input line or on a following one.                  *)
(***************************************************************************)
C5_PipedNothingAfterExit == NothingAfterExit

(***************************************************************************)
(* class FailoverConsole (command/failover_console.py).  The object is the *)
(* record dash; a method is an operator from the record to the record.     *)
(* Beside the fields of the class the record holds the environment: term,  *)
(* the rows get_terminal_size() reports, and feed, what the callbacks and  *)
(* the master return.  A tuple list_data is <<cols, rows>>, so that        *)
(* Python's list_data[1] is list_data[2].  remaining is the local          *)
(* remaining_rows of the last _print_list, and trace lists the callbacks   *)
(* invoked and the screens drawn while the last key was handled.           *)
(***************************************************************************)
MINIMUM_ROWS == 15

\* self.old_mode = None
NoMode == "None"

\* self.log_file = None
NoFile == "None"

COMMAND_KEYS ==
    (<<"ESC", "[", "A">> :> "ARROW_UP") @@ (<<"ESC", "[", "B">> :> "ARROW_DN")

\* a[i] for a Python list or tuple and an index that may be negative
PyIndex(a, i) == IF i < 0 THEN a[Len(a) + i + 1] ELSE a[i + 1]

GTID_LISTS ==
    <<"Transactions executed on the servers:",
      "Transactions purged from the servers:",
      "Transactions owned by another server:">>

\* an entry of the trace is <<name of what is called>>, with what is
\* printed after the name for the list and the footer
Traced(self, what) == [self EXCEPT !.trace = Append(@, <<what>>)]

TracedWith(self, what, shown) == [self EXCEPT !.trace = Append(@, <<what, shown>>)]

\* an exception leaves the method that is running and its callers, none of
\* which catches it: a method applied to a console that has raised does
\* nothing
Raised(self, exc) == [self EXCEPT !.exc = exc, !.pc = "raised"]

HasRaised(self) == self.exc # NoExc

\* the callback or the call on the master named `what` raises this time
Fails(self, what) == what \in self.failing

reset_screen_size(self) ==
    IF HasRaised(self) THEN self ELSE
    [self EXCEPT !.max_rows = IF self.term < MINIMUM_ROWS
                              THEN MINIMUM_ROWS ELSE self.term]

format_gtid_data(self) ==
    IF HasRaised(self) THEN self ELSE
    LET next == IF self.gtid_list + 1 > 3 THEN 0 ELSE self.gtid_list + 1
        own == next = 0 /\ self.master_gtids # <<>>
        a == [self EXCEPT !.gtid_list = next]
        b == IF own THEN [a EXCEPT !.comment = "Master GTID Executed Set"]
             ELSE [Traced(a, "get_gtid_data")
                      EXCEPT !.comment = PyIndex(GTID_LISTS, next - 1)]
        rows == IF own THEN self.master_gtids
                ELSE PyIndex(self.feed.gtid, next - 1)
    IN  IF ~own /\ Fails(self, "get_gtid_data")
        THEN Raised(Traced(a, "get_gtid_data"), "UtilRplError")
        ELSE [b EXCEPT !.start_list = 0, !.end_list = Len(rows),
                       !.report_mode = "G",
                       !.list_data = <<IF next = 0 THEN "MASTER_GTID_COLS"
                                       ELSE "GEN_GTID_COLS", rows>>]

format_health_data(self) ==
    IF HasRaised(self) THEN self
    ELSE IF Fails(self, "get_health_data")
    THEN Raised(Traced(self, "get_health_data"), "UtilRplError")
    ELSE [Traced(self, "get_health_data")
             EXCEPT !.start_list = 0, !.end_list = Len(self.feed.health),
                    !.report_mode = "H",
                    !.list_data = <<"HEALTH_COLS", self.feed.health>>]

format_uuid_data(self) ==
    IF HasRaised(self) THEN self
    ELSE IF Fails(self, "get_uuid_data")
    THEN Raised([Traced(self, "get_uuid_data") EXCEPT !.comment = "UUIDs"],
                "UtilRplError")
    ELSE [Traced(self, "get_uuid_data")
             EXCEPT !.comment = "UUIDs", !.start_list = 0,
                    !.end_list = Len(self.feed.uuid), !.report_mode = "U",
                    !.list_data = <<"GEN_UUID_COLS", self.feed.uuid>>]

format_log_entries(self) ==
    IF HasRaised(self) THEN self ELSE
    IF self.logging /\ self.log_file # NoFile
    THEN [self EXCEPT !.comment = "Log File", !.start_list = 0,
                      !.end_list = Len(self.feed.log), !.report_mode = "L",
                      !.list_data = <<"LOG_COLS", self.feed.log>>]
    ELSE [self EXCEPT !.report_mode = "L", !.list_data = <<"LOG_COLS", <<>>>>]

Dash_clear(self) ==
    IF HasRaised(self) THEN self
    ELSE [Traced(self, "clear") EXCEPT !.rows_printed = 0]

print_header(self) ==
    IF HasRaised(self) THEN self ELSE
    IF self.old_mode # NoMode /\ self.old_mode # self.mode
    THEN [self EXCEPT !.rows_printed = @ + 2 + 4, !.max_rows = @ - 3]
    ELSE [self EXCEPT !.rows_printed = @ + 4]

\* self.master.get_status() can raise only while the master is not connected
print_master_status(self) ==
    IF HasRaised(self) THEN self
    ELSE IF ~self.connected /\ Fails(self, "master.get_status")
    THEN Raised(Traced(self, "master.get_status"), "UtilRplError")
    ELSE [Traced(self, "master.get_status")
             EXCEPT !.master_gtids = self.feed.executed, !.rows_printed = @ + 7]

print_warnings(self) ==
    IF HasRaised(self) THEN self ELSE
    [self EXCEPT !.rows_printed = @ + Cardinality(self.warnings_dic)]

print_footer(self, scroll) ==
    IF HasRaised(self) THEN self ELSE
    [TracedWith(self, "footer", scroll) EXCEPT !.rows_printed = self.max_rows]

\* _print_list from the title of the list on; a is the console after the
\* header and the master status have been printed again, if they were
print_list_rows(a, refresh) ==
    IF HasRaised(a) THEN a
    ELSE LET b == [a EXCEPT !.rows_printed = @ + 1]
             footer_len == 2
             remaining_rows == b.max_rows - b.rows_printed - 4 - footer_len
             all == b.list_data[2]
             window == PySlice(all, b.start_list, b.end_list)
             cut == Len(window) > remaining_rows
             rows == IF cut
                     THEN PySlice(all, b.start_list, b.start_list + remaining_rows)
                     ELSE window
             c == IF cut
                  THEN [b EXCEPT !.end_list = b.start_list + remaining_rows,
                                 !.scroll_on = TRUE]
                  ELSE IF Len(all) = b.end_list /\ b.start_list = 0
                       THEN [b EXCEPT !.scroll_on = FALSE]
                       ELSE b
             d == IF Len(rows) > 0
                  THEN [c EXCEPT !.scroll_size = Len(rows),
                                 !.rows_printed = @ + Len(rows) + 4]
                  ELSE [c EXCEPT !.rows_printed = @ + 1]
             e == [TracedWith(d, "list", rows) EXCEPT !.remaining = remaining_rows]
         IN  IF refresh THEN print_footer(e, e.scroll_on) ELSE e

print_list(self, refresh) ==
    IF HasRaised(self) \/ self.list_data = None THEN self
    ELSE print_list_rows(IF refresh
                         THEN print_master_status(print_header(Dash_clear(self)))
                         ELSE self,
                         refresh)

scroll(self, key) ==
    IF HasRaised(self) THEN self ELSE
    IF COMMAND_KEYS[key] = "ARROW_UP"
    THEN IF self.start_list > 0
         THEN LET to == self.start_list - self.scroll_size
              IN  print_list([self EXCEPT !.start_list = IF to < 0 THEN 0 ELSE to,
                                          !.stop_list = self.scroll_size],
                             TRUE)
         ELSE self
    ELSE IF COMMAND_KEYS[key] = "ARROW_DN"
    THEN LET n == Len(self.list_data[2])
             to == self.end_list + self.scroll_size
         IN  IF self.end_list < n
             THEN print_list([self EXCEPT !.start_list = self.end_list,
                                          !.end_list = IF to > n THEN n ELSE to],
                             TRUE)
             ELSE self
    ELSE self

\* The health data is fetched in every view.
refresh_always_fetches(self) ==
    IF HasRaised(self) THEN self ELSE
    LET a == print_warnings(print_master_status(print_header(
                 reset_screen_size(Dash_clear(self)))))
        b == format_health_data(a)
        c == print_list(b, FALSE)
    IN  print_footer(c, c.scroll_on)

refresh(self) ==
    IF HasRaised(self) THEN self ELSE
    LET a == print_warnings(print_master_status(print_header(
                 reset_screen_size(Dash_clear(self)))))
        b == IF a.report_mode = "H" THEN format_health_data(a) ELSE a
        c == print_list(b, FALSE)
    IN  print_footer(c, c.scroll_on)

\* the loop `while i < 3` of _reconnect_master: the attempts before number
\* fails + 1 raise, and the bare except goes on to time.sleep(pingtime)
RECURSIVE reconnect_attempts(_, _, _)
reconnect_attempts(self, fails, i) ==
    IF i < 3
    THEN LET a == Traced(self, "master.connect")
         IN  IF i < fails
             THEN reconnect_attempts(Traced(a, "time.sleep"), fails, i + 1)
             ELSE <<[a EXCEPT !.connected = TRUE], TRUE>>
    ELSE <<self, FALSE>>

\* The console sleeps after every attempt, the one that connected too.
reconnect_master_sleeps_after_connect(self, fails) ==
    IF self.connected
    THEN <<Traced(self, "master.is_alive"), TRUE>>
    ELSE LET r == reconnect_attempts(Traced(self, "master.is_alive"), fails, 0)
         IN  <<IF r[2] THEN Traced(r[1], "time.sleep") ELSE r[1], r[2]>>

\* fails: how many of the attempts to connect fail; the result is the pair
\* of the console and is_connected
reconnect_master(self, fails) ==
    IF self.connected
    THEN <<Traced(self, "master.is_alive"), TRUE>>
    ELSE reconnect_attempts(Traced(self, "master.is_alive"), fails, 0)

Dash_do_command(self, key) ==
    IF HasRaised(self) THEN self ELSE
    LET a == [self EXCEPT !.max_rows = self.term]
        b == IF key \notin {<<"g">>, <<"G">>} THEN [a EXCEPT !.gtid_list = -1] ELSE a
    IN  IF key \in {<<"r">>, <<"R">>} THEN refresh(b)
        ELSE IF key \in {<<"g">>, <<"G">>} THEN print_list(format_gtid_data(b), TRUE)
        ELSE IF key \in {<<"h">>, <<"H">>} THEN print_list(format_health_data(b), TRUE)
        ELSE IF key \in {<<"u">>, <<"U">>} THEN print_list(format_uuid_data(b), TRUE)
        ELSE IF key \in {<<"l">>, <<"L">>}
        THEN IF b.logging THEN print_list(format_log_entries(b), TRUE) ELSE b
        ELSE IF key \in DOMAIN COMMAND_KEYS THEN scroll(b, key)
        ELSE b

\* self.alarm = self.interval + time.time(): until_alarm is
\* self.alarm - time.time(), the time left until the alarm
reset_interval(self) ==
    [Traced(self, "reset_interval") EXCEPT !.until_alarm = self.interval]

\* the loop of display_console is entered unless an exception was raised
display_console_loop(self) ==
    IF HasRaised(self) THEN self ELSE [self EXCEPT !.pc = "loop"]

\* display_console up to its loop
display_console_enter(self) ==
    LET a == reset_interval(self)
        b == IF a.list_data # None THEN a
             ELSE IF Fails(a, "get_health_data")
             THEN Raised(Traced(a, "get_health_data"), "Exception")
             ELSE [Traced(a, "get_health_data")
                      EXCEPT !.list_data = <<"HEALTH_COLS", a.feed.health>>,
                             !.start_list = 0,
                             !.end_list = Len(a.feed.health),
                             !.gtid_list = -1]
    IN  display_console_loop(refresh(b))

\* The master is reconnected only when a key is to be handled.
display_console_pass_late_reconnect(self, key, fails) ==
    LET a == Traced([self EXCEPT !.connected = FALSE], "master.disconnect")
        w == Traced(a, "wait_for_interval")
    IN  IF key = None THEN [w EXCEPT !.pc = "returned", !.ret = "None"]
        ELSE IF key \in {<<"Q">>, <<"q">>} THEN [w EXCEPT !.pc = "returned", !.ret = "True"]
        ELSE LET b == IF w.report_mode = "H"
                      THEN print_list(format_health_data(w), TRUE)
                      ELSE w
             IN  Dash_do_command(reconnect_master(b, fails)[1], key)

\* The interval starts again when a key has been handled.
display_console_pass_resets_alarm(self, key, fails) ==
    LET a == Traced([self EXCEPT !.connected = FALSE], "master.disconnect")
        b == reconnect_master(Traced(a, "wait_for_interval"), fails)[1]
    IN  IF key = None THEN [b EXCEPT !.pc = "returned", !.ret = "None"]
        ELSE IF key \in {<<"Q">>, <<"q">>} THEN [b EXCEPT !.pc = "returned", !.ret = "True"]
        ELSE LET c == IF b.report_mode = "H"
                      THEN print_list(format_health_data(b), TRUE)
                      ELSE b
             IN  reset_interval(Dash_do_command(c, key))

\* One pass through the loop of display_console: key is what
\* _wait_for_interval returned, None when the interval expired.  ret is
\* "None" or "True", what display_console returns.
display_console_pass(self, key, fails) ==
    LET a == Traced([self EXCEPT !.connected = FALSE], "master.disconnect")
        b == reconnect_master(Traced(a, "wait_for_interval"), fails)[1]
    IN  IF key = None THEN [b EXCEPT !.pc = "returned", !.ret = "None"]
        ELSE IF key \in {<<"Q">>, <<"q">>} THEN [b EXCEPT !.pc = "returned", !.ret = "True"]
        ELSE LET c == IF b.report_mode = "H"
                      THEN print_list(format_health_data(b), TRUE)
                      ELSE b
             IN  Dash_do_command(c, key)

(***************************************************************************)
(* Specification SpecKeys: one call of Console.get_user_command, a key at  *)
(* a time.  The console was built with a caller's commands and variables   *)
(* and has taken the commands of EarlierCommands before this prompt.       *)
(***************************************************************************)
\* _CommandHistory({'max_size': 20})
ConsoleHistorySize == 20

\* the printable characters the user types
KeyAlphabet == {"h", "e", "q", " ", "$"}

\* the keys getch() returns: one raw key for each kind of command key
ConsoleKeys ==
    {<<"\t">>, <<"\n">>, <<"ESC">>, <<"DEL">>, <<"ESC", "[", "3", "~">>,
     <<"ESC", "[", "A">>, <<"ESC", "[", "B">>, <<"ESC", "[", "C">>,
     <<"ESC", "[", "D">>, <<"ESC", "O", "H">>, <<"ESC", "O", "F">>}
    \union {<<ch>> : ch \in KeyAlphabet}

\* new_base_commands of the caller: none, or a 'history' command
NewBaseCommands ==
    {<<>>,
     <<[name |-> <<"h", "i", "s", "t", "o", "r", "y">>, alias |-> <<>>, text |-> <<"S", "h", "o", "w", " ", "t", "h", "e", " ", "h", "i", "s", "t", "o", "r", "y", ".">>]>>}

\* options['variables'] of the caller
KeysVariables == (<<"h", "e">> :> <<"5">>) @@ (<<"q">> :> <<"e">>)

\* what the history holds when the prompt is shown
EarlierCommands == {<<>>, <<<<"h", "e", "l", "p">>, <<"e", " ", "q">>>>}

RECURSIVE AddAll(_, _)
\* history.add(command) for each command in turn
AddAll(h, commands) ==
    IF commands = <<>> THEN h
    ELSE AddAll(History_add(h, Head(commands)), Tail(commands))

InitKeys ==
    /\ IdleLine
    /\ \E earlier \in EarlierCommands :
           history = AddAll(NewCommandHistory(ConsoleHistorySize), earlier)
    /\ added = <<>>
    /\ recalled = <<>>
    /\ variables = KeysVariables
    /\ repl = [cmd_string |-> <<>>, new_cmd |-> <<>>, i |-> 0, returned |-> TRUE]
    /\ tab_count = 0
    /\ type_complete_mode = COMMAND_COMPLETE
    /\ errors = <<>>
    /\ \E new_base_commands \in NewBaseCommands :
           base_commands = new_base_commands \o BASE_COMMANDS
    /\ options \in [custom : BOOLEAN, quiet : {FALSE}]
    /\ out = <<>>
    /\ run = [mode |-> "keys", pc |-> "loop", keys |-> 0, tabs |-> 0,
              cmd_string |-> <<>>]
    /\ IdleDash
    /\ IdleReg
    /\ IdleTty
    /\ op = "init"
    /\ pre = [cmd_line |-> cmd_line, tab_count |-> 0]

\* run.keys counts the keys handled at this prompt and run.tabs the TAB keys
\* pressed in a row up to the last key; pre is the line buffer and the tab
\* counter as they were before the last key.
\* The loop of get_user_command after `key` has been handled with result r:
\* it ends when the key was one of the two ENTER keys.
KeysAfter(r, key) ==
    IF r.exc # NoExc THEN r.exc
    ELSE IF KeyName(key) \in {"ENTER_POSIX", "ENTER_WIN"} THEN "returned"
    ELSE "loop"

Pressed(key) ==
    \E r \in {user_key(Self, key)} :
        /\ Store(r.self)
        /\ out' = r.out
        /\ run' = [run EXCEPT
               !.pc = KeysAfter(r, key),
               !.keys = run.keys + 1,
               !.tabs = IF KeyName(key) = "TAB" THEN run.tabs + 1 ELSE 0,
               !.cmd_string = r.ret]
        /\ op' = KeyName(key)
        /\ pre' = [cmd_line |-> cmd_line, tab_count |-> tab_count]
        /\ UNCHANGED <<dashVars, regVars, ttyVars, added, recalled, repl>>

\* key = getch() is a printable character: self.cmd_line.add(key)
KeysCharacter ==
    /\ run.mode = "keys"
    /\ run.pc = "loop"
    /\ run.keys < MaxKeys
    /\ cmd_line.length < MaxTyped
    /\ \E key \in ConsoleKeys : ~IsCommandKey(key) /\ Pressed(key)

\* key = getch() is in _COMMAND_KEY: self._process_command_keys(cmd_key)
KeysCommandKey ==
    /\ run.mode = "keys"
    /\ run.pc = "loop"
    /\ run.keys < MaxKeys
    /\ \E key \in ConsoleKeys : IsCommandKey(key) /\ Pressed(key)

NextKeys == KeysCharacter \/ KeysCommandKey

SpecKeys == InitKeys /\ [][NextKeys]_vars

\* The last key was TAB, pressed on the buffer pre.cmd_line.
TabPressed == run.mode = "keys" /\ op = "TAB"

\* the text is one token: not empty and without a space
SingleToken(text) == text # <<>> /\ \A k \in 1..Len(text) : text[k] # " "

\* the name or the alias of a catalog entry, whichever the prefix matched
MatchedName(cmd, cmd_prefix) ==
    IF StartsWith(cmd.name, cmd_prefix) THEN cmd.name ELSE cmd.alias

(***************************************************************************)
(* C8: with the tab counter at 0 and the cursor at the end of a buffer     *)
(* that is a single token and a prefix of exactly one catalog entry (by    *)
(* name or alias), a Tab press leaves the buffer equal to the matched name *)
(* followed by one space, and the tab counter at 0.                        *)
(***************************************************************************)
C8_SingleMatchCompleted ==
    LET token == pre.cmd_line.command
        matches == get_commands(Self, token)
    IN  (/\ TabPressed
         /\ pre.tab_count = 0
         /\ pre.cmd_line.position = Len(token)
         /\ SingleToken(token)
         /\ Len(matches) = 1)
        => /\ run.pc = "loop"
           /\ cmd_line.command = MatchedName(matches[1], token) \o <<" ">>
           /\ tab_count = 0

\* 'he' has been completed to 'help ' by one Tab.
C8_Witness ==
    /\ TabPressed
    /\ pre = [cmd_line |-> [command |-> <<"h", "e">>, position |-> 2, length |-> 2],
              tab_count |-> 0]
    /\ cmd_line.command = <<"h", "e", "l", "p", " ">>
    /\ tab_count = 0

(***************************************************************************)
(* C9: when the buffer is a prefix of two or more catalog entries, the     *)
(* first Tab press leaves the buffer text and the cursor unchanged and     *)
(* prints nothing; the second Tab press in a row prints the list of all    *)
(* the matches, redraws the prompt and the unchanged buffer, and resets    *)
(* the tab counter to 0.                                                   *)
(***************************************************************************)
C9_TwoTabsListMatches ==
    LET matches == get_commands(Self, pre.cmd_line.command)
    IN  (TabPressed /\ Len(matches) >= 2)
        => /\ run.tabs = 1 =>
                  /\ cmd_line = pre.cmd_line
                  /\ out = <<>>
           /\ run.tabs = 2 =>
                  /\ cmd_line = pre.cmd_line
                  /\ out = <<Printed("command list", matches),
                             Printed("display_command",
                                     Prompt \o pre.cmd_line.command)>>
                  /\ tab_count = 0

(***************************************************************************)
(* Specification SpecDash: a FailoverConsole whose display_console is      *)
(* called again whenever it has returned for an expired interval.  The     *)
(* callbacks and the master answer every call, get_terminal_size() reports *)
(* the same height at every call, and the user types lower-case letters;   *)
(* warnings are added and removed between two keys.                        *)
(***************************************************************************)
\* rows of a list: the k-th row of the list called tag
Rows(tag, n) == [k \in 1..n |-> <<tag, k>>]

\* what the callbacks return when the lists have n rows
Feeds ==
    {[health |-> Rows("health", n), uuid |-> Rows("uuid", n),
      gtid |-> <<Rows("executed", n), Rows("purged", 1), <<>>>>,
      log |-> Rows("log", n), executed |-> Rows("master", 2)] :
         n \in 0..MaxRows}

\* the header, the master status, the title, the grid and the footer
\* take 18 rows of the screen
TermRows == {MINIMUM_ROWS - 1, 18 + PageRows, 18 + PageRows + 1}

DashKeys ==
    {<<"q">>, <<"r">>, <<"g">>, <<"h">>, <<"u">>, <<"l">>, <<"x">>}
    \union DOMAIN COMMAND_KEYS

\* options['interval'], in ticks of the clock
Interval == 2

\* how many attempts of _reconnect_master to connect fail
ConnectFailures == {0, 1, 3}

\* which of the callbacks and of the calls on the master raise when called
Failures ==
    {{}, {"get_health_data"}, {"get_gtid_data"}, {"get_uuid_data"},
     {"master.get_status"}}

\* FailoverConsole(master, get_health_data, get_gtid_data, get_uuid_data,
\* options), possibly after register_instance has changed the mode
InitDashIn(feeds, terms, mode_pairs, logs) ==
    /\ IdleLine
    /\ IdleHist
    /\ IdleRepl
    /\ IdleCons
    /\ IdleRun
    /\ \E feed \in feeds, term \in terms, modes \in mode_pairs, log \in logs :
           dash = reset_screen_size(
                    [mode |-> modes[1], old_mode |-> modes[2],
                     logging |-> log[1], log_file |-> log[2],
                     gtid_list |-> -1, scroll_size |-> 0, start_list |-> 0,
                     end_list |-> 0, stop_list |-> 0, rows_printed |-> 0,
                     max_rows |-> 24, list_data |-> None,
                     comment |-> "Replication Health Status",
                     scroll_on |-> FALSE, master_gtids |-> <<>>,
                     warnings_dic |-> {}, report_mode |-> "H",
                     connected |-> TRUE, term |-> term, feed |-> feed,
                     interval |-> Interval, until_alarm |-> Interval,
                     exc |-> NoExc, failing |-> {},
                     remaining |-> 0, trace |-> <<>>, pc |-> "idle", ret |-> "None"])
    /\ IdleReg
    /\ IdleTty
    /\ op = "init"
    /\ pre = <<>>

InitDash ==
    InitDashIn(Feeds, TermRows, {<<"auto", NoMode>>, <<"fail", "auto">>},
               {<<FALSE, NoFile>>, <<TRUE, "failover.log">>})

\* With a screen too small for the list the window moves below 0 by a page
\* at each ARROW_DN; it is followed down to -MaxRows.
DashRan(name, d) ==
    /\ d.start_list >= -MaxRows
    /\ d.end_list >= -MaxRows
    /\ dash' = [d EXCEPT !.failing = {}]
    /\ op' = name
    /\ UNCHANGED <<regVars, ttyVars, lineVars, histVars, replVars, consVars, runVars, pre>>

Fresh(d, failing) == [d EXCEPT !.trace = <<>>, !.failing = failing]

\* the caller calls display_console, again after it returned None
DashDisplayIn(failures) ==
    /\ dash.pc = "idle" \/ (dash.pc = "returned" /\ dash.ret = "None")
    /\ \E failing \in failures :
           DashRan("display_console", display_console_enter(Fresh(dash, failing)))

\* _wait_for_interval returns a key: the alarm has not been reached
DashKeyIn(connect_failures, failures) ==
    /\ dash.pc = "loop"
    /\ dash.until_alarm > 0
    /\ \E key \in DashKeys, fails \in connect_failures, failing \in failures :
           DashRan(IF key \in DOMAIN COMMAND_KEYS THEN COMMAND_KEYS[key] ELSE key[1],
                   display_console_pass(Fresh(dash, failing), key, fails))

\* the clock is at the alarm, or has passed it
Expired(d) == [d EXCEPT !.until_alarm = 0]

\* _wait_for_interval returns None: the clock has reached the alarm
DashTimeoutIn(connect_failures) ==
    /\ dash.pc = "loop"
    /\ \E fails \in connect_failures :
           DashRan("timeout",
                   display_console_pass(Expired(Fresh(dash, {})), None, fails))

\* the master can be reached and the callbacks return
DashDisplay == DashDisplayIn({{}})

DashKey == DashKeyIn({0}, {{}})

DashTimeout == DashTimeoutIn({0})

\* add_warning(warning_key, warning_msg)
DashAddWarning ==
    /\ dash.pc = "loop"
    /\ DashRan("add_warning", [dash EXCEPT !.warnings_dic = @ \union {"w"}])

\* del_warning(warning_key)
DashDelWarning ==
    /\ dash.pc = "loop"
    /\ DashRan("del_warning", [dash EXCEPT !.warnings_dic = @ \ {"w"}])

NextDash ==
    \/ DashDisplay \/ DashKey \/ DashTimeout
    \/ DashAddWarning \/ DashDelWarning

SpecDash == InitDash /\ [][NextDash]_vars

(***************************************************************************)
(* Specification SpecFail: display_console when the reconnection to the    *)
(* master can fail and the callbacks and master.get_status() can raise.    *)
(***************************************************************************)
InitFail ==
    InitDashIn({f \in Feeds : Len(f.health) \in {0, MaxRows}},
               {MINIMUM_ROWS - 1, 18 + PageRows},
               {<<"auto", NoMode>>}, {<<FALSE, NoFile>>})

FailDisplay == DashDisplayIn(Failures)

FailKey == DashKeyIn(ConnectFailures, Failures)

FailTimeout == DashTimeoutIn(ConnectFailures)

NextFail == FailDisplay \/ FailKey \/ FailTimeout

SpecFail == InitFail /\ [][NextFail]_vars

(***************************************************************************)
(* C10: in any view, when the list has n rows, a page holds p rows and the *)
(* window is one of (0,p), (p,2p), ... with its end clamped at n, an       *)
(* ARROW_DN key handled by display_console sets start to the previous end  *)
(* and end to min(end + p, n); once end = n it changes neither.            *)
(***************************************************************************)
C10_ArrowDownPages ==
    [][LET n == Len(dash.list_data[2])
           p == dash.remaining
           s == dash.start_list
           e == dash.end_list
       IN  (/\ dash.pc = "loop"
            /\ op' = "ARROW_DN"
            /\ p >= 1
            /\ p < n
            /\ s >= 0
            /\ s % p = 0
            /\ e = Min(s + p, n))
           => IF e < n
              THEN dash'.start_list = e /\ dash'.end_list = Min(e + p, n)
              ELSE dash'.start_list = s /\ dash'.end_list = e]_vars

(***************************************************************************)
(* Specification SpecReg: two consoles call register_instance against the  *)
(* same master.  reg.exists and reg.rows are the table                     *)
(* mysql.failover_console of the master and the number of its rows with    *)
(* the master's host and port; reg.inst[i] is console i: the fields mode   *)
(* and old_mode, the arguments clear and register, the local res, and pc,  *)
(* the next call it makes on the master.  One action is one call on the    *)
(* master together with the code of the method up to the next call; the    *)
(* server runs each statement as a whole.                                  *)
(***************************************************************************)
Instances == {1, 2}

FailoverModes == {"auto", "elect", "fail"}

\* The console unregisters only after its mode has been changed.
AfterDrop_if_mode_changed(c) ==
    IF c.register THEN "create"
    ELSE IF c.old_mode # NoMode /\ c.old_mode # c.mode THEN "delete" ELSE "enable"

\* where register_instance goes after toggle_binlog("DISABLE") and after DROP
AfterDrop(c) ==
    IF c.register THEN "create"
    ELSE IF c.old_mode # c.mode THEN "delete" ELSE "enable"

AfterDisable(c) == IF c.clear THEN "drop" ELSE AfterDrop(c)

\* a statement on a table that does not exist is refused by the server
Refused(c) == [c EXCEPT !.pc = "raised"]

InitReg ==
    /\ IdleLine
    /\ IdleHist
    /\ IdleRepl
    /\ IdleCons
    /\ IdleRun
    /\ IdleDash
    /\ \E table \in {<<FALSE, 0>>, <<TRUE, 0>>, <<TRUE, 1>>},
          inst \in [Instances -> [mode : FailoverModes, old_mode : {NoMode},
                                  clear : BOOLEAN, register : BOOLEAN,
                                  res : {0}, inserted : {FALSE},
                                  began : FailoverModes, pc : {"enter"},
                                  ret : {NoMode}]] :
           /\ \A i \in Instances : inst[i].began = inst[i].mode
           /\ reg = [pc |-> "run", exists |-> table[1], rows |-> table[2],
                     inst |-> inst]
    /\ IdleTty
    /\ op = "init"
    /\ pre = <<>>

RegRan(name, i, c, exists, rows) ==
    /\ reg' = [reg EXCEPT !.inst[i] = c, !.exists = exists, !.rows = rows]
    /\ op' = name
    /\ UNCHANGED <<dashVars, ttyVars, lineVars, histVars, replVars, consVars,
                   runVars, pre>>

At(i, pc) == reg.pc = "run" /\ reg.inst[i].pc = pc

\* if self.master is None or self.mode == 'fail': return self.mode
\* self.master.toggle_binlog("DISABLE")
RegEnter ==
    \E i \in Instances :
        /\ At(i, "enter")
        /\ LET c == reg.inst[i]
           IN  RegRan("enter", i,
                      IF c.mode = "fail"
                      THEN [c EXCEPT !.pc = "returned", !.ret = c.mode]
                      ELSE [c EXCEPT !.pc = AfterDisable(c)],
                      reg.exists, reg.rows)

\* self.master.exec_query(_DROP_FC_TABLE)
RegDrop ==
    \E i \in Instances :
        /\ At(i, "drop")
        /\ RegRan("drop", i, [reg.inst[i] EXCEPT !.pc = AfterDrop(reg.inst[i])],
                  FALSE, 0)

\* res = self.master.exec_query(_CREATE_FC_TABLE)
RegCreate ==
    \E i \in Instances :
        /\ At(i, "create")
        /\ RegRan("create", i, [reg.inst[i] EXCEPT !.pc = "select"],
                  TRUE, reg.rows)

\* res = self.master.exec_query(_SELECT_FC_TABLE % host_port)
RegSelect ==
    \E i \in Instances :
        /\ At(i, "select")
        /\ RegRan("select", i,
                  IF reg.exists
                  THEN [reg.inst[i] EXCEPT !.res = reg.rows, !.pc = "commit"]
                  ELSE Refused(reg.inst[i]),
                  reg.exists, reg.rows)

\* self.master.commit(), then the test of res
RegCommit ==
    \E i \in Instances :
        /\ At(i, "commit")
        /\ LET c == reg.inst[i]
           IN  RegRan("commit", i,
                      IF c.res # 0
                      THEN [c EXCEPT !.old_mode = c.mode, !.mode = "fail",
                                     !.pc = "enable"]
                      ELSE [c EXCEPT !.pc = "insert"],
                      reg.exists, reg.rows)

\* res = self.master.exec_query(_INSERT_FC_TABLE % host_port)
RegInsert ==
    \E i \in Instances :
        /\ At(i, "insert")
        /\ IF reg.exists
           THEN RegRan("insert", i,
                       [reg.inst[i] EXCEPT !.inserted = TRUE, !.pc = "enable"],
                       TRUE, reg.rows + 1)
           ELSE RegRan("insert", i, Refused(reg.inst[i]), FALSE, 0)

\* res = self.master.exec_query(_DELETE_FC_TABLE % host_port)
RegDelete ==
    \E i \in Instances :
        /\ At(i, "delete")
        /\ IF reg.exists
           THEN RegRan("delete", i, [reg.inst[i] EXCEPT !.pc = "enable"], TRUE, 0)
           ELSE RegRan("delete", i, Refused(reg.inst[i]), FALSE, 0)

\* self.master.toggle_binlog("ENABLE"); return self.mode
RegEnable ==
    \E i \in Instances :
        /\ At(i, "enable")
        /\ RegRan("enable", i,
                  [reg.inst[i] EXCEPT !.pc = "returned", !.ret = reg.inst[i].mode],
                  reg.exists, reg.rows)

NextReg ==
    \/ RegEnter
    \/ RegDrop
    \/ RegCreate
    \/ RegSelect
    \/ RegCommit
    \/ RegInsert
    \/ RegDelete
    \/ RegEnable

SpecReg == InitReg /\ [][NextReg]_vars

\* console i called register_instance(clear=False, register=True) in mode
\* auto or elect and the call has returned
Registered(i) ==
    /\ reg.pc = "run"
    /\ reg.inst[i].register
    /\ ~reg.inst[i].clear
    /\ reg.inst[i].began # "fail"
    /\ reg.inst[i].pc = "returned"

(***************************************************************************)
(* C11: when two consoles have run register_instance(register=True)        *)
(* against the same master, their queries interleaved in any order, at     *)
(* most one of them found no marker and inserted one, and they do not both *)
(* keep their failover mode auto or elect.                                 *)
(***************************************************************************)
C11_OneRegistrationWins ==
    (Registered(1) /\ Registered(2))
        => /\ ~(reg.inst[1].inserted /\ reg.inst[2].inserted)
           /\ ~(reg.inst[1].ret # "fail" /\ reg.inst[2].ret # "fail")

(***************************************************************************)
(* Specification SpecTty: the calls that read a key from the terminal      *)
(* (os.name = 'posix'): getch of console.py, getch of failover_console.py  *)
(* and FailoverConsole._wait_for_interval.  tty.attrs is what tcgetattr    *)
(* returns for standard input: the ICANON and ECHO flags and the VMIN and  *)
(* VTIME control characters.  tty.pending is the key waiting to be read    *)
(* (None when there is none) and tty.expired says whether the time has     *)
(* reached self.alarm; both belong to the environment.  The other fields   *)
(* are the locals of the call under way: old of getch, old_settings, key   *)
(* and done of _wait_for_interval; began is tty.attrs when the call began, *)
(* seen is what the last polling iteration found, exc is the call that     *)
(* raised.  An exception is raised by a call the code makes: tcgetattr     *)
(* when standard input is not a terminal, os.read, or select in kbhit.     *)
(***************************************************************************)
\* new[3] & ~ICANON & ~ECHO; new[6][VMIN] = 1; new[6][VTIME] = 0
NoEchoCharAtATime(attrs) ==
    [attrs EXCEPT !.icanon = FALSE, !.echo = FALSE, !.vmin = 1, !.vtime = 0]

\* tty.setcbreak(fd) of the standard library
setcbreak(attrs) ==
    [attrs EXCEPT !.icanon = FALSE, !.echo = FALSE, !.vmin = 1, !.vtime = 0]

\* getch() up to `try`: tcgetattr twice, tcsetattr(fd, TCSANOW, new), key = None
getch_enter(t) ==
    IF ~t.isatty
    THEN [t EXCEPT !.pc = IF t.nested THEN "finally" ELSE "raised",
                   !.exc = "tcgetattr"]
    ELSE [t EXCEPT !.old = t.attrs, !.attrs = NoEchoCharAtATime(t.attrs),
                   !.pc = "read"]

\* The terminal is put back only when os.read returns.
getch_read_no_finally(t, raises) ==
    IF raises
    THEN [t EXCEPT !.pc = IF t.nested THEN "finally" ELSE "raised",
                   !.exc = "read"]
    ELSE [t EXCEPT !.attrs = t.old, !.pending = None,
                   !.key = t.pending, !.done = t.nested,
                   !.ret = IF t.nested THEN t.ret ELSE t.pending,
                   !.pc = IF t.nested THEN "poll" ELSE "returned"]

\* try: key = os.read(fd, n)  finally: tcsetattr(fd, TCSAFLUSH, old); return key
\* When _wait_for_interval made the call, the key goes to its `key` and its
\* `done` becomes True; an exception goes through its `finally`.
getch_read(t, raises) ==
    IF raises
    THEN [t EXCEPT !.attrs = t.old,
                   !.pc = IF t.nested THEN "finally" ELSE "raised",
                   !.exc = "read"]
    ELSE [t EXCEPT !.attrs = t.old, !.pending = None,
                   !.key = t.pending, !.done = t.nested,
                   !.ret = IF t.nested THEN t.ret ELSE t.pending,
                   !.pc = IF t.nested THEN "poll" ELSE "returned"]

\* _wait_for_interval up to `try`
wait_enter(t) ==
    IF t.no_keyboard
    THEN [t EXCEPT !.key = None, !.done = FALSE, !.pc = "poll"]
    ELSE IF ~t.isatty
    THEN [t EXCEPT !.pc = "raised", !.exc = "tcgetattr"]
    ELSE [t EXCEPT !.old_settings = t.attrs, !.attrs = setcbreak(t.attrs),
                   !.key = None, !.done = FALSE, !.pc = "poll"]

\* One pass through `while not done`, up to the call of getch if it is made:
\* done = self.alarm <= time.time()
\* if not self.no_keyboard and kbhit() and not done: key = getch(); done = True
wait_poll(t, raises) ==
    IF t.done
    THEN [t EXCEPT !.pc = "finally"]
    ELSE IF t.no_keyboard
    THEN [t EXCEPT !.done = t.expired,
                   !.seen = [expired |-> t.expired, kbhit |-> FALSE]]
    ELSE IF raises
    THEN [t EXCEPT !.done = t.expired, !.pc = "finally", !.exc = "kbhit"]
    ELSE [t EXCEPT !.done = t.expired,
                   !.seen = [expired |-> t.expired, kbhit |-> t.pending # None],
                   !.nested = TRUE,
                   !.pc = IF t.pending # None /\ ~t.expired
                          THEN "getch" ELSE "poll"]

\* finally: tcsetattr(sys.stdin, TCSADRAIN, old_settings); return key
wait_finally(t) ==
    LET restored == IF t.no_keyboard THEN t.attrs ELSE t.old_settings
    IN  IF t.exc # NoExc
        THEN [t EXCEPT !.attrs = restored, !.pc = "raised"]
        ELSE [t EXCEPT !.attrs = restored, !.pc = "returned", !.ret = t.key]

TtyKeys == {<<"q">>, <<"ESC", "[", "B">>}

TtyCalls == {"console.getch", "failover_console.getch", "_wait_for_interval"}

TtyAttrs == [icanon : BOOLEAN, echo : BOOLEAN, vmin : {0, 1}, vtime : {0, 1}]

InitTty ==
    /\ IdleLine
    /\ IdleHist
    /\ IdleRepl
    /\ IdleCons
    /\ IdleRun
    /\ IdleDash
    /\ IdleReg
    /\ IdleScreen
    /\ \E attrs \in TtyAttrs, isatty \in BOOLEAN :
           tty = [pc |-> "idle", call |-> "none", attrs |-> attrs,
                  began |-> attrs, isatty |-> isatty, no_keyboard |-> FALSE,
                  nested |-> FALSE, old |-> attrs, old_settings |-> attrs,
                  key |-> None, done |-> FALSE, pending |-> None,
                  expired |-> FALSE,
                  seen |-> [expired |-> FALSE, kbhit |-> FALSE],
                  ret |-> None, exc |-> NoExc]
    /\ op = "init"
    /\ pre = <<>>

TtyRan(name, t) ==
    /\ tty' = t
    /\ op' = name
    /\ UNCHANGED <<dashVars, regVars, lineVars, histVars, replVars, consVars,
                   runVars, screen, pre>>

\* a caller calls getch() or self._wait_for_interval(); before the latter
\* it has set self.alarm to a later time
TtyCall ==
    /\ tty.pc \in {"idle", "returned", "raised"}
    /\ \E call \in TtyCalls, no_keyboard \in BOOLEAN :
           /\ no_keyboard => call = "_wait_for_interval"
           /\ TtyRan("call",
                     [tty EXCEPT !.pc = IF call = "_wait_for_interval"
                                        THEN "wait" ELSE "getch",
                                 !.call = call, !.began = tty.attrs,
                                 !.no_keyboard = no_keyboard, !.nested = FALSE,
                                 !.old = tty.attrs, !.old_settings = tty.attrs,
                                 !.key = None, !.done = FALSE,
                                 !.expired = FALSE,
                                 !.seen = [expired |-> FALSE, kbhit |-> FALSE],
                                 !.ret = None, !.exc = NoExc])

TtyGetchEnter ==
    /\ tty.pc = "getch"
    /\ TtyRan("getch", getch_enter(tty))

\* os.read returns when there is a key to read
TtyGetchRead ==
    /\ tty.pc = "read"
    /\ \E raises \in BOOLEAN :
           /\ ~raises => tty.pending # None
           /\ TtyRan("read", getch_read(tty, raises))

TtyWaitEnter ==
    /\ tty.pc = "wait"
    /\ TtyRan("wait", wait_enter(tty))

TtyWaitPoll ==
    /\ tty.pc = "poll"
    /\ \E raises \in BOOLEAN : TtyRan("poll", wait_poll(tty, raises))

TtyWaitFinally ==
    /\ tty.pc = "finally"
    /\ TtyRan("finally", wait_finally(tty))

\* the user presses a key
TtyKeyPressed ==
    /\ tty.pc \notin {"idle", "returned", "raised"}
    /\ tty.pending = None
    /\ \E key \in TtyKeys : TtyRan("key pressed", [tty EXCEPT !.pending = key])

\* the time reaches self.alarm
TtyAlarm ==
    /\ tty.pc \in {"wait", "poll"}
    /\ ~tty.expired
    /\ TtyRan("alarm", [tty EXCEPT !.expired = TRUE])

NextTty ==
    \/ TtyCall
    \/ TtyGetchEnter
    \/ TtyGetchRead
    \/ TtyWaitEnter
    \/ TtyWaitPoll
    \/ TtyWaitFinally
    \/ TtyKeyPressed
    \/ TtyAlarm

SpecTty == InitTty /\ [][NextTty]_vars

\* the call has returned or raised
TtyCallOver == tty.pc \in {"returned", "raised"}

(***************************************************************************)
(* C12: when a call of getch (of either module) or of _wait_for_interval   *)
(* returns or raises, the terminal attributes are those of the moment the  *)
(* call began: the no-echo, character-at-a-time mode does not outlive the  *)
(* call, on the normal path or when the read raises.                       *)
(***************************************************************************)
C12_TerminalRestored == TtyCallOver => tty.attrs = tty.began

\* os.read raised in the getch that _wait_for_interval called on a terminal
\* in canonical mode with echo, and the call is over
C12_Witness ==
    /\ TtyCallOver
    /\ tty.call = "_wait_for_interval"
    /\ tty.exc = "read"
    /\ tty.began.icanon
    /\ tty.began.echo
    /\ tty.attrs = tty.began

(***************************************************************************)
(* C16: when a polling iteration of _wait_for_interval finds both a key    *)
(* available and the alarm time reached, the key is read and returned.     *)
(***************************************************************************)
C16_KeyBeforeTimeout ==
    (/\ tty.pc = "returned"
     /\ tty.call = "_wait_for_interval"
     /\ tty.seen.kbhit
     /\ tty.seen.expired)
        => tty.ret # None

(***************************************************************************)
(* C13: after every operation on the line buffer at the prompt, the Escape *)
(* key (erase_command) and the history keys (replace_command) included,    *)
(* length = len(command) and 0 <= position <= length.                      *)
(***************************************************************************)
C13_LengthAndCursorKept ==
    run.mode = "keys"
        => /\ cmd_line.length = Len(cmd_line.command)
           /\ 0 <= cmd_line.position
           /\ cmd_line.position <= cmd_line.length

(***************************************************************************)
(* C14: whenever display_console has drawn the screen and waits, the       *)
(* window of the list satisfies                                            *)
(* 0 <= start_list <= end_list <= number of rows of list_data, whatever    *)
(* the height of the terminal, the warnings shown and the keys pressed.    *)
(***************************************************************************)
C14_WindowInRange ==
    (dash.pc = "loop" /\ dash.list_data # None)
        => /\ 0 <= dash.start_list
           /\ dash.start_list <= dash.end_list
           /\ dash.end_list <= Len(dash.list_data[2])

(***************************************************************************)
(* C15: after any sequence of add, next and previous on a _CommandHistory  *)
(* of capacity N, len(commands) <= N, and position is 0 when the list is   *)
(* empty and otherwise an index of the list: 0 <= position < len(commands).*)
(***************************************************************************)
C15_HistoryBounded ==
    /\ Len(history.commands) <= history.max_size
    /\ IF history.commands = <<>>
       THEN history.position = 0
       ELSE 0 <= history.position /\ history.position < Len(history.commands)

\* More commands have been added than the list holds, and the last add
\* replaced an entry while the position was not 0.
C15_Witness ==
    /\ op = "add"
    /\ Len(added) > HistSize
    /\ Len(history.commands) = history.max_size
    /\ history.position > 0

\* the callbacks and the call that fetch data through the master
Fetches ==
    {<<"get_health_data">>, <<"get_gtid_data">>, <<"get_uuid_data">>,
     <<"master.get_status">>}

\* the places of the trace of the last pass where `what` was called
Calls(what) == {i \in 1..Len(dash.trace) : dash.trace[i] = <<what>>}

(***************************************************************************)
(* C17: in a pass through the loop of display_console, master.disconnect() *)
(* is the call made just before _wait_for_interval, so that no connect     *)
(* happens between the two; a connection attempt is made after the wait,   *)
(* before every fetch of data that follows it in the pass and before       *)
(* display_console returns to a caller that will fetch again.              *)
(***************************************************************************)
C17_DisconnectedWhileWaiting ==
    \A i \in Calls("wait_for_interval") :
        /\ i - 1 \in Calls("master.disconnect")
        /\ \E m \in Calls("master.connect") : m > i
        /\ \A k \in (i + 1)..Len(dash.trace) :
               dash.trace[k] \in Fetches
                   => \E m \in Calls("master.connect") : i < m /\ m < k

\* 'u' was pressed in the Health view and the first attempt to connect
\* failed: after the wait the health data and the UUIDs have been fetched
C17_Witness ==
    /\ op = "u"
    /\ Calls("wait_for_interval") # {}
    /\ Cardinality(Calls("master.connect")) = 2
    /\ Calls("get_health_data") # {}
    /\ Calls("get_uuid_data") # {}
    /\ dash.pc = "loop"

\* the three attempts of _reconnect_master after the last wait have failed
ReconnectFailed ==
    /\ Calls("wait_for_interval") # {}
    /\ Cardinality(Calls("master.connect")) = 3
    /\ ~dash.connected

(***************************************************************************)
(* C18: when all the attempts to reconnect made after a wait have failed,  *)
(* display_console does not end with an error: it records a warning to be  *)
(* displayed and goes on with the loop.                                    *)
(***************************************************************************)
C18_ReconnectFailureSurvived ==
    ReconnectFailed
        => /\ dash.pc # "raised"
           /\ dash.warnings_dic # {}

\* the callbacks that fetch the data of the lists
Callbacks == {<<"get_health_data">>, <<"get_gtid_data">>, <<"get_uuid_data">>}

\* the last call display_console made, after a wait that returned a key, is
\* a callback, and it raised
CallbackRaised ==
    /\ Calls("wait_for_interval") # {}
    /\ dash.exc # NoExc
    /\ dash.trace # <<>>
    /\ dash.trace[Len(dash.trace)] \in Callbacks

(***************************************************************************)
(* C19: when a callback that fetches data raises while display_console     *)
(* handles a key or refreshes, the exception does not leave                *)
(* display_console, which goes on to the next wait.                        *)
(***************************************************************************)
C19_CallbackErrorContained == CallbackRaised => dash.pc = "loop"

\* the entry of the command of the batch that was dispatched last
LastDispatched == run.dispatched[Len(run.dispatched)]

\* execute_custom_command raised UtilError in the last command of the batch
CustomCommandFailed ==
    /\ run.mode = "batch"
    /\ run.dispatched # <<>>
    /\ \E k \in 1..Len(LastDispatched.out) : LastDispatched.out[k].what = "err.errmsg"

(***************************************************************************)
(* C20: when execute_custom_command raises UtilError, _do_command does     *)
(* not propagate it: it returns False, the loop over the commands goes on, *)
(* and the error is in self.errors, where 'show errors' and                *)
(* 'show last error' find it.                                              *)
(***************************************************************************)
C20_CustomErrorLogged ==
    CustomCommandFailed
        => /\ LastDispatched.ret = FALSE
           /\ run.pc \in {"loop", "done"}
           /\ errors # <<>>

(***************************************************************************)
(* Specification SpecCmd: the interactive mode of Console.run_console.     *)
(* The user types one command of TypedVocabulary at each prompt, a         *)
(* character at a time, and ends it with Enter; the command goes into the  *)
(* history and to _do_command.  run.hook is what the overridable methods   *)
(* is_valid_custom_command and execute_custom_command of this console do;  *)
(* pre holds the variables as they were before the last dispatch.          *)
(***************************************************************************)
MaxSubmits == 2

TypedVocabulary ==
    {<<"s", "e", "t", " ", "x", "=", "5">>,
     <<"s", "e", "t", " ", "x", "=", "a", "=", "b">>,
     <<"s", "e", "t", " ", "=", "5">>,
     <<"s", "e", "t", " ", "x">>,
     <<"s", "h", "o", "w", " ", "v", "a", "r", "i", "a", "b", "l", "e", "s">>,
     <<"u", "s", "e", " ", "$", "x">>,
     <<"f", "o", "o">>,
     <<"s", "a", "y", " ", "'", "h", "i">>,
     <<"h", "e", "l", "p">>,
     <<"e", "x", "i", "t">>}

EnterKey == <<"\n">>

\* the keys the user presses for a command: its characters, then Enter
KeysOf(text) == [k \in 1..Len(text) |-> <<text[k]>>] \o <<EnterKey>>

\* what the custom methods do: those of the class itself when the console
\* was built without 'custom', those of a subclass otherwise
HooksOf(custom) ==
    IF custom THEN Hooks ELSE {[valid |-> FALSE, execute |-> "ok"]}

InitCmd ==
    /\ IdleLine
    /\ history = NewCommandHistory(ConsoleHistorySize)
    /\ added = <<>>
    /\ recalled = <<>>
    /\ variables = NoVariables
    /\ repl = [cmd_string |-> <<>>, new_cmd |-> <<>>, i |-> 0, returned |-> TRUE]
    /\ tab_count = 0
    /\ type_complete_mode = COMMAND_COMPLETE
    /\ errors = <<>>
    /\ base_commands = BASE_COMMANDS
    /\ options \in [custom : BOOLEAN, quiet : BOOLEAN]
    /\ out = <<>>
    /\ \E hook \in HooksOf(options.custom) :
           run = [mode |-> "interactive", pc |-> "prompt", keys |-> <<>>,
                  submitted |-> 0, command |-> <<>>, ret |-> "none",
                  hook |-> hook]
    /\ IdleDash
    /\ IdleReg
    /\ IdleTty
    /\ op = "init"
    /\ pre = [variables |-> NoVariables]

\* what _do_command returned, or that it raised
RetName(r) ==
    IF r.exc # NoExc THEN "raised" ELSE IF r.ret = TRUE THEN "True" ELSE "False"

\* get_user_command() up to its loop: the prompt and the line buffer are
\* displayed and the tab counter is reset
CmdPrompt ==
    /\ run.mode = "interactive"
    /\ run.pc = "prompt"
    /\ run.submitted < MaxSubmits
    /\ \E text \in TypedVocabulary :
           run' = [run EXCEPT !.pc = "keys", !.keys = KeysOf(text)]
    /\ tab_count' = 0
    /\ out' = <<display_command(Self)>>
    /\ op' = "get_user_command"
    /\ UNCHANGED <<cmd_line, type_complete_mode, variables, history, errors,
                   base_commands, options, dashVars, regVars, ttyVars,
                   added, recalled, repl, pre>>

\* one pass through the loop of get_user_command: it ends at Enter
CmdKey ==
    /\ run.mode = "interactive"
    /\ run.pc = "keys"
    /\ \E r \in {user_key(Self, Head(run.keys))} :
        /\ Store(r.self)
        /\ out' = r.out
        /\ run' = [run EXCEPT
               !.keys = Tail(run.keys),
               !.command = r.ret,
               !.pc = IF r.exc # NoExc THEN r.exc
                      ELSE IF Head(run.keys) = EnterKey THEN "dispatch"
                      ELSE "keys"]
    /\ op' = KeyName(Head(run.keys))
    /\ UNCHANGED <<dashVars, regVars, ttyVars, added, recalled, repl, pre>>

\* self.history.add(command); if self._do_command(command): break
CmdDispatch ==
    /\ run.mode = "interactive"
    /\ run.pc = "dispatch"
    /\ \E r \in {do_command([Self EXCEPT !.history =
                                History_add(history, run.command)],
                            run.command, run.hook)} :
        /\ Store(r.self)
        /\ out' = r.out
        /\ run' = [run EXCEPT
               !.submitted = run.submitted + 1,
               !.ret = RetName(r),
               !.pc = IF r.exc # NoExc THEN r.exc
                      ELSE IF r.ret = TRUE THEN "done" ELSE "prompt"]
    /\ op' = "_do_command"
    /\ pre' = [variables |-> variables]
    /\ UNCHANGED <<dashVars, regVars, ttyVars, added, recalled, repl>>

NextCmd == CmdPrompt \/ CmdKey \/ CmdDispatch

SpecCmd == InitCmd /\ [][NextCmd]_vars

\* _do_command has just been called on the typed command run.command
Dispatched == run.mode = "interactive" /\ op = "_do_command"

\* the text run.command is (in lower case, without the spaces around it)
Typed(text) == Dispatched /\ Lower(Strip(run.command, {" "})) = text

\* out holds a print of `what`
Shown(what) == \E k \in 1..Len(out) : out[k].what = what

\* how many times ch occurs in s
Count(s, ch) == Cardinality({k \in 1..Len(s) : s[k] = ch})

\* the argument of a set command does not have the form NAME=value
Malformed(argument) ==
    Count(argument, "=") # 1 \/ Find(argument, "=", 0) = 0

\* the last command dispatched was a set command, with this argument
SetArgument == PyFrom(Strip(run.command, {" "}), 4)

SetDispatched ==
    /\ Dispatched
    /\ StartsWith(Lower(Strip(run.command, {" "})), <<"s", "e", "t", " ">>)

(***************************************************************************)
(* C21: a malformed set command (no '=', nothing before the '=', or more   *)
(* than one '=') prints the inline warning, stores no variable, raises no  *)
(* exception, and _do_command returns False so that the session goes on.   *)
(***************************************************************************)
C21_MalformedSetWarned ==
    (SetDispatched /\ Malformed(SetArgument))
        => /\ run.ret = "False"
           /\ run.pc = "prompt"
           /\ variables = pre.variables
           /\ Shown("SET command invalid. Syntax: SET <NAME> = <value>")

(***************************************************************************)
(* C22: in every state after the construction of the FailoverConsole       *)
(* max_rows is at least 15 (_MINIMUM_ROWS), whatever height                *)
(* get_terminal_size() reports and whatever keys and renders have been     *)
(* processed.                                                              *)
(***************************************************************************)
C22_MinimumRowsKept == dash.max_rows >= MINIMUM_ROWS

(***************************************************************************)
(* C23: whatever keys get_user_command is fed (Escape, cursor moves,       *)
(* edits, history recall and Tab in any order), _process_command_keys and  *)
(* the methods it calls never raise: after every key the loop of           *)
(* get_user_command is still running or has returned at Enter.             *)
(***************************************************************************)
C23_KeysNeverRaise == run.mode = "keys" => run.pc \in {"loop", "returned"}

\* the 0-based slot add() overwrites in a full ring whose position is p
OverwrittenSlot(h) == IF h.position = 0 THEN h.max_size - 1 ELSE h.position - 1

(***************************************************************************)
(* C24: add() on a history that holds max_size commands overwrites exactly *)
(* one slot (index max_size - 1 if position is 0, position - 1 otherwise)  *)
(* and leaves every other slot unchanged; add() under capacity appends the *)
(* command; in both cases position is 0 after add().                       *)
(***************************************************************************)
C24_AddKeepsRingAndResets ==
    op = "add" =>
        LET command == added[Len(added)]
        IN  /\ IF Len(pre.commands) < pre.max_size
               THEN history.commands = Append(pre.commands, command)
               ELSE /\ Len(history.commands) = pre.max_size
                    /\ \A i \in 0..(pre.max_size - 1) :
                           history.commands[i + 1] =
                               IF i = OverwrittenSlot(pre) THEN command
                               ELSE pre.commands[i + 1]
            /\ history.position = 0

\* the keys other than Tab and Enter, as op names them
EditKeys ==
    {"add", "ARROW_LT", "ARROW_RT", "ARROW_UP", "ARROW_DN", "HOME", "END",
     "BACKSPACE_POSIX", "BACKSPACE_WIN", "DELETE_POSIX", "DELETE_WIN",
     "DELETE_MAC", "ESCAPE"}

\* the last key printed a list of matches
MatchListPrinted ==
    \E k \in 1..Len(out) : out[k].what \in {"command list", "variables"}

(***************************************************************************)
(* C25: the tab counter is 0 after every key other than Tab that           *)
(* get_user_command handles (a character, a cursor move, Home, End,        *)
(* backspace, delete, Escape, a history recall), so the list of matches is *)
(* printed only by the second of two Tab presses in a row.                 *)
(***************************************************************************)
C25_NonTabResetsCounter ==
    run.mode = "keys" =>
        /\ (op \in EditKeys /\ run.pc = "loop") => tab_count = 0
        /\ MatchListPrinted => (op = "TAB" /\ run.tabs >= 2)

(***************************************************************************)
(* C26: a Tab press that brings the tab counter to 2 prints the list of    *)
(* matches and resets the counter to 0, however many matches there are and *)
(* whatever the completion mode; so the counter is 0 or 1 after every Tab  *)
(* and never exceeds 2.                                                    *)
(***************************************************************************)
C26_SecondTabListsAndResets ==
    run.mode = "keys" =>
        /\ tab_count <= 2
        /\ (TabPressed /\ run.pc = "loop") =>
               /\ tab_count \in {0, 1}
               /\ pre.tab_count = 1 => MatchListPrinted

\* the text has no space
NoSpace(text) == \A k \in 1..Len(text) : text[k] # " "

\* the last of the tokens of the text that spaces separate: the token
\* nearest a cursor that is at the end of the text
LastToken(text) == Split(text, " ")[Len(Split(text, " "))]

(***************************************************************************)
(* C27: on Tab (the case of a cursor at the end of the buffer) the         *)
(* completion mode is command completion when the buffer has no space,     *)
(* the empty buffer included; otherwise it is variable completion if and   *)
(* only if the token nearest the cursor contains '$' at any index, the     *)
(* first included, and option completion if not.                           *)
(***************************************************************************)
C27_CompletionModeSelected ==
    (/\ TabPressed
     /\ run.pc = "loop"
     /\ pre.cmd_line.position = Len(pre.cmd_line.command)
     /\ pre.cmd_line.length = Len(pre.cmd_line.command))
    => type_complete_mode =
           IF NoSpace(pre.cmd_line.command) THEN COMMAND_COMPLETE
           ELSE IF Count(LastToken(pre.cmd_line.command), "$") > 0
                THEN VARIABLE_COMPLETE
                ELSE OPTION_COMPLETE

(***************************************************************************)
(* C28: after _do_command has returned False for a submitted command, a    *)
(* command whose tokenization failed included, the line buffer is empty    *)
(* (command '', position 0, length 0) and the tab counter is 0.            *)
(***************************************************************************)
C28_LineEmptyAfterCommand ==
    (Dispatched /\ run.ret = "False")
        => /\ cmd_line = NewCommand
           /\ tab_count = 0

\* the commands of TypedVocabulary whose name is not the name of a built-in
UnknownCommands == {<<"f", "o", "o">>, <<"u", "s", "e", " ", "$", "x">>}

(***************************************************************************)
(* C29: a command whose name matches no built-in is passed to              *)
(* execute_custom_command when a custom executor is registered and accepts *)
(* it; in every other case (no executor registered, or the executor does   *)
(* not recognise the command) the unknown-command report is printed and no *)
(* handler runs.                                                           *)
(***************************************************************************)
C29_UnknownCommandRouted ==
    (Dispatched /\ run.command \in UnknownCommands)
        => IF options.custom /\ run.hook.valid
           THEN Shown("execute_custom_command") /\ ~Shown("Unknown command")
           ELSE Shown("Unknown command") /\ ~Shown("execute_custom_command")

\* what the last previous() or next() of the history returned
Recalled ==
    IF history.commands = <<>> THEN <<>>
    ELSE history.commands[history.position + 1]

(***************************************************************************)
(* C30: replace_command(newText), which ARROW_UP and ARROW_DN call with    *)
(* the text the history returns, sets the buffer to newText with position  *)
(* = length = len(newText) for every newText, the empty string included.   *)
(***************************************************************************)
C30_RecallReplacesBuffer ==
    (run.mode = "keys" /\ op \in {"ARROW_UP", "ARROW_DN"})
        => cmd_line = [command |-> Recalled, position |-> Len(Recalled),
                       length |-> Len(Recalled)]

(***************************************************************************)
(* What the methods of _Command write to sys.stdout, as the sequence of    *)
(* the characters written; "BS" is '\b'.  Each operator takes the fields   *)
(* of the object as they are when the method is called.                    *)
(***************************************************************************)
\* chars * n
Times(chars, n) ==
    [k \in 1..(n * Len(chars)) |-> chars[((k - 1) % Len(chars)) + 1]]

erase_portion(num) == Times(<<"BS", " ", "BS">>, num)

erase_inline(c, backspace) ==
    IF c.position < c.length
    THEN LET num_erase == 1 + c.length - c.position
         IN  (IF backspace THEN <<"BS">> ELSE <<>>)
             \o Times(<<" ">>, num_erase) \o Times(<<"BS">>, num_erase)
    ELSE IF backspace THEN erase_portion(1) ELSE <<>>

erase_command_writes(c) ==
    Times(<<" ">>, c.length - c.position) \o erase_portion(c.length)

home_writes(c) == Times(<<"BS">>, c.position)

end_writes(c) == PySlice(c.command, c.position, c.length)

delete_writes(c) ==
    IF c.position < c.length
    THEN IF c.length = 1
         THEN <<" ", "BS">>
         ELSE IF c.length > 0
              THEN LET rest == PyFrom(delete_keypress(c).command, c.position)
                   IN  erase_inline(c, FALSE) \o rest
                       \o Times(<<"BS">>, Len(rest))
              ELSE <<>>
    ELSE <<>>

backspace_writes(c) ==
    IF c.position <= 0 THEN <<>>
    ELSE IF c.position < c.length
         THEN erase_inline(c, TRUE)
              \o PyFrom(backspace_keypress(c).command, c.position - 1)
              \o Times(<<"BS">>, c.length - c.position)
         ELSE erase_portion(1)

left_arrow_writes(c) == IF c.position > 0 THEN <<"BS">> ELSE <<>>

right_arrow_writes(c) ==
    IF c.position < c.length
    THEN PySlice(c.command, c.position, c.position + 1) ELSE <<>>

replace_command_writes(c, new_cmd) ==
    IF new_cmd # <<>> THEN erase_portion(c.length) \o new_cmd ELSE <<>>

add_writes(c, key) ==
    IF c.position < c.length
    THEN LET num_erase == c.length - c.position
         IN  Times(<<" ">>, num_erase) \o Times(<<"BS">>, num_erase)
             \o PyFrom(Command_add(c, key).command, c.position)
             \o Times(<<"BS">>, c.length - (c.position + Len(key)) + Len(key))
    ELSE key

display_command_writes(c) == Prompt \o c.command

(***************************************************************************)
(* The terminal: a row of ScreenWidth cells and a cursor, a column from 0. *)
(* A printable character overwrites the cell under the cursor and moves    *)
(* the cursor right; '\b' moves it left and stops at column 0.             *)
(***************************************************************************)
ScreenWidth == Len(Prompt) + MaxLen + 2

\* how many operations are applied to the line
MaxOps == 5

BlankScreen ==
    [pc |-> "row", cells |-> [k \in 1..ScreenWidth |-> " "], cursor |-> 0,
     ops |-> 0]

ScreenChar(s, ch) ==
    IF ch = "BS"
    THEN [s EXCEPT !.cursor = Max(s.cursor - 1, 0)]
    ELSE [s EXCEPT !.cells[s.cursor + 1] = ch, !.cursor = s.cursor + 1]

RECURSIVE ScreenWrite(_, _)
\* sys.stdout.write(chars)
ScreenWrite(s, chars) ==
    IF chars = <<>> THEN s
    ELSE ScreenWrite(ScreenChar(s, Head(chars)), Tail(chars))

(***************************************************************************)
(* Specification SpecScreen: the operations of _Command applied in any     *)
(* order to an empty line that display_command has just shown, with the    *)
(* terminal that receives what they write.                                 *)
(***************************************************************************)
\* the texts a history recall replaces the command with
ScreenRecalls == {<<>>, <<"a">>, <<"b", "a", "b">>}

InitScreen ==
    /\ IdleLine
    /\ IdleHist
    /\ IdleRepl
    /\ IdleCons
    /\ IdleRun
    /\ IdleDash
    /\ IdleReg
    /\ tty = [pc |-> "none"]
    /\ screen = ScreenWrite(BlankScreen, display_command_writes(NewCommand))
    /\ op = "init"
    /\ pre = NewCommand

\* screen.ops counts the operations applied
ScreenRan(name, new, writes) ==
    /\ screen.ops < MaxOps
    /\ op' = name
    /\ pre' = cmd_line
    /\ cmd_line' = new
    /\ screen' = ScreenWrite([screen EXCEPT !.ops = screen.ops + 1], writes)
    /\ UNCHANGED <<dashVars, regVars, tty, histVars, replVars, consVars, runVars>>

ScreenAdd ==
    \E key \in LineKeys :
        /\ cmd_line.length + Len(key) <= MaxLen
        /\ ScreenRan("add", Command_add(cmd_line, key), add_writes(cmd_line, key))

ScreenBackspace ==
    ScreenRan("backspace_keypress", backspace_keypress(cmd_line),
              backspace_writes(cmd_line))

ScreenDelete ==
    ScreenRan("delete_keypress", delete_keypress(cmd_line), delete_writes(cmd_line))

ScreenLeft ==
    ScreenRan("left_arrow_keypress", left_arrow_keypress(cmd_line),
              left_arrow_writes(cmd_line))

ScreenRight ==
    ScreenRan("right_arrow_keypress", right_arrow_keypress(cmd_line),
              right_arrow_writes(cmd_line))

ScreenHome ==
    ScreenRan("home_keypress", home_keypress(cmd_line), home_writes(cmd_line))

ScreenEnd ==
    ScreenRan("end_keypress", end_keypress(cmd_line), end_writes(cmd_line))

ScreenErase ==
    ScreenRan("erase_command", erase_command(cmd_line),
              erase_command_writes(cmd_line))

ScreenReplace ==
    \E new_cmd \in ScreenRecalls :
        ScreenRan("replace_command", replace_command(cmd_line, new_cmd),
                  replace_command_writes(cmd_line, new_cmd))

NextScreen ==
    \/ ScreenAdd
    \/ ScreenBackspace
    \/ ScreenDelete
    \/ ScreenLeft
    \/ ScreenRight
    \/ ScreenHome
    \/ ScreenEnd
    \/ ScreenErase
    \/ ScreenReplace

SpecScreen == InitScreen /\ [][NextScreen]_vars

\* text followed by blanks up to the width of the row
Padded(text) ==
    [k \in 1..ScreenWidth |-> IF k <= Len(text) THEN text[k] ELSE " "]

(***************************************************************************)
(* C31: after every operation of _Command, replace_command and             *)
(* erase_command with the cursor left of the end included, the cells of    *)
(* the terminal show the prompt and the command followed by blanks, and    *)
(* the cursor of the terminal is at len(prompt) + position.                *)
(***************************************************************************)
C31_ScreenShowsCommand ==
    screen.pc = "row" =>
        /\ screen.cells = Padded(Prompt \o cmd_line.command)
        /\ screen.cursor = Len(Prompt) + cmd_line.position

(***************************************************************************)
(* Specification SpecGtid: display_console on a master whose executed GTID *)
(* set is empty or not, with callbacks that return three different GTID    *)
(* row-sets.                                                               *)
(***************************************************************************)
GtidFeeds ==
    {[health |-> Rows("health", 1), uuid |-> Rows("uuid", 1),
      gtid |-> <<Rows("executed", n), Rows("purged", 1), Rows("owned", 1)>>,
      log |-> Rows("log", 1), executed |-> Rows("master", m)] :
         n \in {0, 2}, m \in {0, 2}}

InitGtid ==
    InitDashIn(GtidFeeds, {18 + PageRows}, {<<"auto", NoMode>>},
               {<<FALSE, NoFile>>})

GtidDisplay == DashDisplayIn({{}})

GtidKey == DashKeyIn({0}, {{}})

GtidTimeout == DashTimeoutIn({0})

NextGtid == GtidDisplay \/ GtidKey \/ GtidTimeout

SpecGtid == InitGtid /\ [][NextGtid]_vars

(***************************************************************************)
(* C32: each g key that display_console handles moves the GTID sub-view    *)
(* index one step along 0, 1, 2, 3, 0, ... (from -1, where every other key *)
(* puts it); at index 0 the list shows the master's executed GTID set,     *)
(* also when that set is empty, and at indexes 1, 2 and 3 the first, the   *)
(* second and the third row-set that get_gtid_data returns.                *)
(***************************************************************************)
C32_GtidCycle ==
    [][(op' = "g" /\ dash'.pc = "loop")
          => /\ dash'.gtid_list = (dash.gtid_list + 1) % 4
             /\ dash'.list_data[2] =
                    IF dash'.gtid_list = 0 THEN dash'.feed.executed
                    ELSE dash'.feed.gtid[dash'.gtid_list]]_vars

\* the callbacks that fetch data were called in the last pass
Fetched ==
    \E i \in 1..Len(dash.trace) :
        dash.trace[i] \in {<<"get_health_data">>, <<"get_gtid_data">>,
                           <<"get_uuid_data">>}

(***************************************************************************)
(* C33: a key that is none of Q, R, G, H, U, L and no arrow key (here x)   *)
(* changes nothing in the dashboard: report_mode, list_data, start_list,   *)
(* end_list and the GTID sub-view index are after display_console has      *)
(* handled the key what they were before, and no data-fetch callback is    *)
(* invoked for it.                                                         *)
(***************************************************************************)
C33_OtherKeysIgnored ==
    [][op' = "x"
          => /\ dash'.report_mode = dash.report_mode
             /\ dash'.list_data = dash.list_data
             /\ dash'.start_list = dash.start_list
             /\ dash'.end_list = dash.end_list
             /\ dash'.gtid_list = dash.gtid_list
             /\ ~Fetched']_vars

\* display_console has been called again after it returned None for an
\* expired interval, and has drawn the screen
Redisplayed == op = "display_console" /\ Calls("clear") # {}

AfterKey(d, key) == display_console_pass(Fresh(d, {}), key, 0)

(***************************************************************************)
(* C35: in a view other than Health, from a displayed window (s,e) with    *)
(* e < n, ARROW_DN followed by ARROW_UP gives the window (s,e) again, also *)
(* when ARROW_DN reached a short final page; ARROW_UP with start_list = 0  *)
(* changes neither start_list nor end_list.                                *)
(***************************************************************************)
C35_UpMirrorsDown ==
    (/\ dash.pc = "loop"
     /\ dash.report_mode # "H"
     /\ dash.list_data # None)
        => /\ dash.end_list < Len(dash.list_data[2])
              => \E down \in {AfterKey(dash, <<"ESC", "[", "B">>)} :
                 \E up \in {AfterKey(down, <<"ESC", "[", "A">>)} :
                     /\ up.start_list = dash.start_list
                     /\ up.end_list = dash.end_list
           /\ dash.start_list = 0
              => \E up \in {AfterKey(dash, <<"ESC", "[", "A">>)} :
                     /\ up.start_list = dash.start_list
                     /\ up.end_list = dash.end_list

(***************************************************************************)
(* Specification SpecUnreg: as SpecReg, and a console whose call           *)
(* register_instance(clear, True) has returned may call                    *)
(* register_instance(register=False): the two calls a console makes, when  *)
(* it starts and when it leaves.                                           *)
(***************************************************************************)
RegUnregister ==
    \E i \in Instances :
        /\ At(i, "returned")
        /\ reg.inst[i].register
        /\ RegRan("unregister", i,
                  [reg.inst[i] EXCEPT !.clear = FALSE, !.register = FALSE,
                                      !.pc = "enter"],
                  reg.exists, reg.rows)

NextUnreg ==
    \/ RegEnter
    \/ RegDrop
    \/ RegCreate
    \/ RegSelect
    \/ RegCommit
    \/ RegInsert
    \/ RegDelete
    \/ RegEnable
    \/ RegUnregister

SpecUnreg == InitReg /\ [][NextUnreg]_vars

\* console i makes the step
Steps(i) == reg'.inst[i] # reg.inst[i]

\* console i was put in mode 'fail' by register_instance
Downgraded(i) == reg.inst[i].mode = "fail" /\ reg.inst[i].old_mode # NoMode

MaxFails == 4

InitReconnect == InitDash

ReconnectCall ==
    /\ dash.pc = "idle"
    /\ \E alive \in BOOLEAN, fails \in 0..MaxFails :
           \E r \in {reconnect_master(Fresh([dash EXCEPT !.connected = alive], {}),
                                      fails)} :
               /\ dash' = [r[1] EXCEPT !.pc = "returned",
                                       !.ret = IF r[2] THEN "True" ELSE "False"]
               /\ pre' = <<alive, fails>>
    /\ op' = "reconnect_master"
    /\ UNCHANGED <<regVars, ttyVars, lineVars, histVars, replVars, consVars, runVars>>

NextReconnect == ReconnectCall

SpecReconnect == InitReconnect /\ [][NextReconnect]_vars

(***************************************************************************)
(* C37: _reconnect_master calls master.connect() at most 3 times and stops *)
(* at the first attempt that succeeds; it returns True if and only if the  *)
(* master was alive or an attempt succeeded; it sleeps at most 3 times,    *)
(* once after each attempt that failed and not after one that succeeded,   *)
(* and returns.                                                            *)
(***************************************************************************)
C37_ReconnectBounded ==
    op = "reconnect_master"
        => LET alive == pre[1]
               fails == pre[2]
               connects == Calls("master.connect")
               sleeps == Calls("time.sleep")
               n == Len(dash.trace)
           IN  /\ dash.pc = "returned"
               /\ Cardinality(connects) <= 3
               /\ Cardinality(connects) = IF alive THEN 0 ELSE Min(fails + 1, 3)
               /\ (dash.ret = "True") <=> (alive \/ fails < 3)
               /\ Cardinality(sleeps) <= 3
               /\ Cardinality(sleeps) = IF alive THEN 0 ELSE Min(fails, 3)
               /\ \A i \in sleeps : i > 1 /\ dash.trace[i - 1] = <<"master.connect">>
               /\ \A i \in connects :
                      i < n => /\ dash.trace[i + 1] = <<"time.sleep">>
                               /\ Cardinality({j \in connects : j <= i}) <= fails
               /\ (dash.ret = "True" /\ ~alive) => dash.trace[n] = <<"master.connect">>

\* two attempts failed and the third connected: two sleeps, and True
C37_Witness ==
    /\ op = "reconnect_master"
    /\ pre = <<FALSE, 2>>
    /\ dash.ret = "True"
    /\ Cardinality(Calls("master.connect")) = 3
    /\ Cardinality(Calls("time.sleep")) = 2

(***************************************************************************)
(* Specification SpecReplFair: SpecRepl, with a call of _replace_variables *)
(* that goes on running: an iteration of the loop that changes i or        *)
(* new_cmd, or the return, is taken when it can be.                        *)
(***************************************************************************)
SpecReplFair == SpecRepl /\ WF_vars(NextRepl)

(***************************************************************************)
(* C38: _replace_variables returns for every command text and every        *)
(* variable table, also when a stored value contains a `$` token, such as  *)
(* a variable whose value is its own `$name`.                              *)
(***************************************************************************)
C38_ReplaceTerminates == <>repl.returned

\* The last key was Enter.
EnterPressed == run.mode = "keys" /\ op \in {"ENTER_POSIX", "ENTER_WIN"}

(***************************************************************************)
(* C39: Enter ends get_user_command, which returns the text the buffer     *)
(* held just before the key: handling Enter neither completes the text nor *)
(* changes the line buffer nor advances the tab counter.                   *)
(***************************************************************************)
C39_EnterReturnsBuffer ==
    EnterPressed
        => /\ run.pc = "returned" => run.cmd_string = pre.cmd_line.command
           /\ run.pc = "returned" => cmd_line = pre.cmd_line
           /\ tab_count = pre.tab_count

(***************************************************************************)
(* Specification SpecAlarm: display_console with the clock.                *)
(* dash.until_alarm is self.alarm - time.time(), in ticks, 0 once the      *)
(* clock has reached the alarm.  AlarmTick is the clock; AlarmKey is a     *)
(* pass of the loop in which _wait_for_interval returns a key, which it    *)
(* does only before the alarm (`kbhit() and not done`); AlarmExpired is    *)
(* the pass in which it finds `self.alarm <= time.time()`.                 *)
(***************************************************************************)
InitAlarm == InitGtid

AlarmDisplay == DashDisplayIn({{}})

AlarmKey == DashKeyIn({0}, {{}})

AlarmTick ==
    /\ dash.pc = "loop"
    /\ dash.until_alarm > 0
    /\ DashRan("tick", [dash EXCEPT !.until_alarm = @ - 1])

AlarmExpired ==
    /\ dash.pc = "loop"
    /\ dash.until_alarm = 0
    /\ DashRan("timeout", display_console_pass(Fresh(dash, {}), None, 0))

NextAlarm == AlarmDisplay \/ AlarmKey \/ AlarmTick \/ AlarmExpired

SpecAlarm == InitAlarm /\ [][NextAlarm]_vars

\* the clock advances, and a wait that finds the alarm reached returns
SpecAlarmFair == SpecAlarm /\ WF_vars(AlarmTick) /\ WF_vars(AlarmExpired)

\* the step is a pass of the loop that handled a key
KeyHandled == dash.pc = "loop" /\ op' \notin {"tick", "timeout", "display_console"}

(***************************************************************************)
(* C40: handling a key does not change the alarm; once the clock has       *)
(* reached the alarm the next pass of the loop is the one in which         *)
(* _wait_for_interval returns None, without a key being handled; so every  *)
(* call of display_console returns, however many keys arrive before the    *)
(* alarm.                                                                  *)
(***************************************************************************)
C40_AlarmEndsTheCall ==
    /\ [][/\ KeyHandled => dash'.until_alarm = dash.until_alarm
          /\ (dash.pc = "loop" /\ dash.until_alarm = 0)
             => /\ op' = "timeout"
                /\ dash'.pc = "returned"
                /\ dash'.ret = "None"]_vars
    /\ (dash.pc = "loop") ~> (dash.pc = "returned")

\* display_console has returned None at the alarm after it handled two g keys
C40_Witness ==
    /\ op = "timeout"
    /\ dash.pc = "returned"
    /\ dash.ret = "None"
    /\ dash.until_alarm = 0
    /\ dash.gtid_list = 1

==============================================================================
